---- MODULE Spec2Model ----
(***************************************************************************)
(* A model of bagz-index: the HashBucket and trigram index writers,        *)
(* readers and mergers, merge_indices and the sharded index builder.       *)
(*                                                                         *)
(* Byte strings are modelled by the value they carry: a serialized         *)
(* protobuf message is the record of its fields, the empty message is      *)
(* EmptyBytes (b""), and a JSON descriptor is the record of its members.   *)
(* Key bytes are sequences of byte values, compared lexicographically.     *)
(***************************************************************************)
EXTENDS Integers, Sequences, FiniteSets, TLC

VARIABLES
  fs,        \* the file system: path -> [exists, entries] (a bag file)
  hcfg,      \* the HashBucketConfig of the build
  digest,    \* the digest table of hash_key: key bytes -> integer
  hdata,     \* HashBucketWriter._data of the two writers, in insertion order
  hlog,      \* history: the add calls made so far, <<writer, key, record_ids>>
  hres,      \* the last lookup made: [path, key, result]
  tcfg,      \* the TrigramConfig of the build
  tpost,     \* _postings of the two trigram writers
  tlog,      \* history: the add_text calls made so far
  tres,      \* the last search made: [path, query, result]
  builder,   \* the fields of the ShardedIndexBuilder
  bpc,       \* the builder's position: new, open, exit_flush, exit_merge, closed, ..
  btmp,      \* the temporary directory: none, open, released
  bbody,     \* how the body of the with statement ended: running, returned, raised
  berr,      \* the error __exit__ raised, or "none"
  blog,      \* history: the add_record calls made so far
  writers,   \* the writers made by core.make_writer, of any config
  mres,      \* the last merge_indices call: its paths, error, output before
  pf         \* a call of a function of the library: its arguments and its value

hbvars == <<hcfg, digest, hdata, hlog, hres>>
trivars == <<tcfg, tpost, tlog, tres>>
shvars == <<builder, bpc, btmp, bbody, berr, blog>>
mgvars == <<writers, mres>>
pfvars == <<pf>>
vars == <<fs, hcfg, digest, hdata, hlog, hres, tcfg, tpost, tlog, tres,
          builder, bpc, btmp, bbody, berr, blog, writers, mres, pf>>

----------------------------------------------------------------------------
(* Bounds *)

MaxAdds == 2
MaxTexts == 3
MaxRecords == 3
MaxShardLimit == 2
MaxWriterAdds == 1
MaxId == 3
MaxListLen == 3
MaxKeys == 4

----------------------------------------------------------------------------
(* Generic helpers *)

Range(s) == {s[i] : i \in DOMAIN s}

Max(a, b) == IF a >= b THEN a ELSE b

\* sorted(S) of a finite set of integers: the ascending tuple
RECURSIVE SortedInts(_)
SortedInts(S) ==
  IF S = {} THEN <<>>
  ELSE LET m == CHOOSE x \in S : \A y \in S : x <= y
       IN <<m>> \o SortedInts(S \ {m})

\* Python's order on bytes: lexicographic, a proper prefix first
RECURSIVE BytesLess(_, _)
BytesLess(a, b) ==
  IF a = <<>> THEN b # <<>>
  ELSE IF b = <<>> THEN FALSE
  ELSE IF a[1] # b[1] THEN a[1] < b[1]
  ELSE BytesLess(Tail(a), Tail(b))

\* insert one key into an ascending sequence of keys (after its equals)
RECURSIVE InsertBytes(_, _)
InsertBytes(s, k) ==
  IF s = <<>> THEN <<k>>
  ELSE IF BytesLess(k, s[1]) THEN <<k>> \o s
  ELSE <<s[1]>> \o InsertBytes(Tail(s), k)

\* sorted(list of bytes)
RECURSIVE SortedBytes(_)
SortedBytes(s) ==
  IF s = <<>> THEN <<>>
  ELSE InsertBytes(SortedBytes(SubSeq(s, 1, Len(s) - 1)), s[Len(s)])

\* a set of keys as a list, in some iteration order (only used under sorted)
RECURSIVE SetToSeq(_)
SetToSeq(S) ==
  IF S = {} THEN <<>>
  ELSE LET x == CHOOSE y \in S : TRUE IN <<x>> \o SetToSeq(S \ {x})

\* [x for x in s if P(x)]
RECURSIVE SelectSeqIn(_, _)
SelectSeqIn(s, S) ==
  IF s = <<>> THEN <<>>
  ELSE IF s[1] \in S THEN <<s[1]>> \o SelectSeqIn(Tail(s), S)
  ELSE SelectSeqIn(Tail(s), S)

----------------------------------------------------------------------------
(* Bag files *)

\* b"": the serialization of a message with no field set
EmptyBytes == [tag |-> "empty"]

NoFile == [exists |-> FALSE, entries |-> <<>>]

BagFile(entries) == [exists |-> TRUE, entries |-> entries]

----------------------------------------------------------------------------
(* Keys *)

\* key values of the build: strings are sequences of byte values
StringValues == {<<>>, <<97>>, <<98>>}
Int64Values == {0, 1, 2}

KeysOf(name) ==
  IF name = "bagz_index.keys.StringKey"
    THEN {[variant |-> name, str |-> v, num |-> 0] : v \in StringValues}
    ELSE {[variant |-> name, str |-> <<>>, num |-> n] : n \in Int64Values}

\* a repeated string field of tag 1: every element is written, an empty one
\* as tag and length 0
RECURSIVE SerializeRepeated(_)
SerializeRepeated(values) ==
  IF values = <<>> THEN <<>>
  ELSE <<10, Len(Head(values))>> \o Head(values) \o SerializeRepeated(Tail(values))

\* protobuf wire format of a key message with one field of tag 1; a field
\* holding its default value is not written
SerializeToString(key) ==
  IF key.variant = "bagz_index.keys.StringKey"
    THEN IF key.str = <<>> THEN <<>> ELSE <<10, Len(key.str)>> \o key.str
  ELSE IF key.variant = "bagz_index.keys.TupleStringKey"
    THEN SerializeRepeated(key.tup)
  ELSE IF key.num = 0 THEN <<>> ELSE <<8, key.num>>

KeyBytesOf(name) == {SerializeToString(k) : k \in KeysOf(name)}

----------------------------------------------------------------------------
(* HashBucket *)

\* avg_bucket_size is the fraction avg_num / avg_den
HBConfigs ==
  { [type |-> "hashbucket", avg_num |-> 9, avg_den |-> 10,
     key_proto_name |-> "bagz_index.keys.StringKey"],
    [type |-> "hashbucket", avg_num |-> 2, avg_den |-> 1,
     key_proto_name |-> "bagz_index.keys.Int64Key"] }

HashValues == {0, 1}

\* record id sequences passed to add
IdSeqs == {<<>>, <<1>>, <<2, 1>>}

HBToJson(cfg) == [tag |-> "json", obj |-> cfg]

HBFromJson(obj) ==
  [type |-> "hashbucket", avg_num |-> obj.avg_num, avg_den |-> obj.avg_den,
   key_proto_name |-> obj.key_proto_name]

hash_key(kb) == digest[kb]

\* a bucket count that rounds the quotient up
NumBuckets_RoundUp(cfg, n) ==
  Max(1, (n * cfg.avg_den + cfg.avg_num - 1) \div cfg.avg_num)

NumBuckets(cfg, n) == Max(1, (n * cfg.avg_den) \div cfg.avg_num)

\* HashBucket.SerializeToString / ParseFromString
SerializeBucket(records) ==
  IF records = <<>> THEN EmptyBytes ELSE [tag |-> "bucket", records |-> records]

ParseBucket(bytes) == IF bytes = EmptyBytes THEN <<>> ELSE bytes.records

\* a writer whose add replaces the record ids of a key
HBAdd_Replace(data, key, record_ids) ==
  LET kb == SerializeToString(key)
  IN IF \E i \in DOMAIN data : data[i].key = kb
       THEN [i \in DOMAIN data |->
               IF data[i].key = kb
                 THEN [data[i] EXCEPT !.ids = Range(record_ids)]
                 ELSE data[i]]
       ELSE Append(data, [key |-> kb, ids |-> Range(record_ids)])

\* HashBucketWriter.add: _data[key.SerializeToString()].update(record_ids)
HBAdd(data, key, record_ids) ==
  LET kb == SerializeToString(key)
  IN IF \E i \in DOMAIN data : data[i].key = kb
       THEN [i \in DOMAIN data |->
               IF data[i].key = kb
                 THEN [data[i] EXCEPT !.ids = @ \cup Range(record_ids)]
                 ELSE data[i]]
       ELSE Append(data, [key |-> kb, ids |-> Range(record_ids)])

DataKeys(data) == [i \in DOMAIN data |-> data[i].key]

DataIds(data, kb) == (CHOOSE i \in DOMAIN data : data[i].key = kb)

\* the keys of one bucket, in the order the writer sees them
BucketKeys(keys, num_buckets, b) ==
  SelectSeqIn(keys, {k \in Range(keys) : hash_key(k) % num_buckets = b})

\* a writer that leaves the keys of a bucket in the order of their arrival
HBSortKeys_Arrival(keys) == keys

\* sorted(bucket_to_keys[bucket_index])
HBSortKeys(keys) == SortedBytes(keys)

\* HashBucketWriter.write: the entries of the bag file written
HBWriteEntries(cfg, data) ==
  LET num_buckets == NumBuckets(cfg, Len(data))
      keys == DataKeys(data)
      bucket(b) ==
        LET ks == HBSortKeys(BucketKeys(keys, num_buckets, b))
        IN SerializeBucket(
             [j \in DOMAIN ks |->
                [key |-> ks[j],
                 record_ids |-> SortedInts(data[DataIds(data, ks[j])].ids)]])
  IN [i \in 1..num_buckets |-> bucket(i - 1)] \o <<HBToJson(cfg)>>

NotFound == [found |-> FALSE, ids |-> <<>>]

\* HashBucketReader.lookup on the entries of an index
HBLookup(entries, key) ==
  LET key_bytes == SerializeToString(key)
      num_buckets == Len(entries) - 1
      bucket_index == hash_key(key_bytes) % num_buckets
      records == ParseBucket(entries[bucket_index + 1])
      hits == {i \in DOMAIN records : records[i].key = key_bytes}
  IN IF hits = {} THEN NotFound
     ELSE LET first == CHOOSE i \in hits : \A j \in hits : i <= j
          IN [found |-> TRUE, ids |-> records[first].record_ids]

----------------------------------------------------------------------------
(* HashBucket merger *)

\* HashBucketMerger._collect_keys: keys_to_records[key], the (input, bucket)
\* places holding a record of the key
KeyPlaces(inputs, kb) ==
  UNION { { <<p, b>> : b \in { c \in 1..(Len(inputs[p]) - 1) :
                                \E r \in Range(ParseBucket(inputs[p][c])) : r.key = kb } } :
          p \in DOMAIN inputs }

\* HashBucketMerger._collect_keys: the set of keys of all inputs
CollectKeys(inputs) ==
  UNION { UNION { {r.key : r \in Range(ParseBucket(inputs[p][b]))} :
                  b \in 1..(Len(inputs[p]) - 1) } :
          p \in DOMAIN inputs }

\* HashBucketMerger._extract_key_record: the first record of the key
ExtractKeyRecord(kb, bytes) ==
  LET records == ParseBucket(bytes)
      first == CHOOSE i \in DOMAIN records :
                 /\ records[i].key = kb
                 /\ \A j \in DOMAIN records : records[j].key = kb => i <= j
  IN records[first]

\* a merger that keeps the record ids of one input only
MergeRecords_One(kb, records) ==
  [key |-> kb,
   record_ids |-> (CHOOSE r \in records : TRUE).record_ids]

\* a merger that extends a list with the record ids of every input
RECURSIVE ConcatIds(_)
ConcatIds(records) ==
  IF records = {} THEN <<>>
  ELSE LET r == CHOOSE x \in records : TRUE
       IN r.record_ids \o ConcatIds(records \ {r})

MergeRecords_Concat(kb, records) == [key |-> kb, record_ids |-> ConcatIds(records)]

\* HashBucketMerger._merge_records: the sorted union of the record ids
MergeRecords(kb, records) ==
  [key |-> kb,
   record_ids |-> SortedInts(UNION {Range(r.record_ids) : r \in records})]

\* HashBucketMerger.__call__: the entries of the merged bag file
HBMergeEntries(cfg, inputs) ==
  LET keys == CollectKeys(inputs)
      num_buckets == NumBuckets(cfg, Cardinality(keys))
      bucket(b) ==
        LET ks == SortedBytes(SetToSeq({k \in keys : hash_key(k) % num_buckets = b}))
        IN SerializeBucket(
             [j \in DOMAIN ks |->
                MergeRecords(ks[j],
                  {ExtractKeyRecord(ks[j], inputs[pl[1]][pl[2]]) :
                     pl \in KeyPlaces(inputs, ks[j])})])
  IN [i \in 1..num_buckets |-> bucket(i - 1)] \o <<HBToJson(cfg)>>

----------------------------------------------------------------------------
(* Trigram: config, normalization, n-gram slots *)

\* characters are code points: 32 " ", 65 "A", 97 "a", 98 "b", 120 "x"
Space == 32

RECURSIVE Pow(_, _)
Pow(b, e) == IF e = 0 THEN 1 ELSE b * Pow(b, e - 1)

\* TrigramConfig.to_json
TriToJson(cfg) == [tag |-> "json", obj |-> cfg]

\* TrigramConfig.from_json: character_set = "".join(sorted(set(...)))
TriFromJson(obj) ==
  [type |-> "trigram",
   character_set |-> SortedInts(Range(obj.character_set)),
   ngram_size |-> obj.ngram_size,
   normalize |-> obj.normalize,
   store_positions |-> obj.store_positions,
   delta_encode_record_ids |-> obj.delta_encode_record_ids]

\* TrigramConfig.effective_character_set
effective_character_set(cfg) ==
  IF cfg.normalize THEN cfg.character_set \o <<Space>> ELSE cfg.character_set

\* TrigramConfig.char_to_int_map[c]: the last position of c, from 0
CharToInt(cfg, c) ==
  LET ecs == effective_character_set(cfg)
      last == CHOOSE i \in DOMAIN ecs :
                ecs[i] = c /\ \A j \in DOMAIN ecs : ecs[j] = c => j <= i
  IN last - 1

\* str.lower on one character
Lower(c) == IF c >= 65 /\ c <= 90 THEN c + 32 ELSE c

\* compiled_normalize_regex.sub(" ", s): each maximal run of characters
\* outside character_set becomes one space
RECURSIVE SubRuns(_, _, _)
SubRuns(s, cs, inrun) ==
  IF s = <<>> THEN <<>>
  ELSE IF s[1] \in cs THEN <<s[1]>> \o SubRuns(Tail(s), cs, FALSE)
  ELSE (IF inrun THEN <<>> ELSE <<Space>>) \o SubRuns(Tail(s), cs, TRUE)

\* str.isspace on one character: the whitespace of str.strip() without
\* arguments (tab .. carriage return, the separators 28 .. 31, space, NEL,
\* no-break space; the code points above 255 are left out)
IsWhitespace(c) == c \in (9..13) \cup (28..32) \cup {133, 160}

\* str.strip
RECURSIVE LStrip(_)
LStrip(s) == IF s # <<>> /\ IsWhitespace(s[1]) THEN LStrip(Tail(s)) ELSE s

RECURSIVE RStrip(_)
RStrip(s) ==
  IF s # <<>> /\ IsWhitespace(s[Len(s)]) THEN RStrip(SubSeq(s, 1, Len(s) - 1)) ELSE s

\* _normalize_text(text, config.compiled_normalize_regex)
normalize_text(text, cfg) ==
  RStrip(LStrip(SubRuns([i \in DOMAIN text |-> Lower(text[i])],
                        Range(cfg.character_set), FALSE)))

\* _ngram_to_index(ngram, config.char_to_int_map)
RECURSIVE NgramIndexFrom(_, _, _, _)
NgramIndexFrom(ngram, cfg, base, index) ==
  IF ngram = <<>> THEN index
  ELSE IF ngram[1] \notin Range(effective_character_set(cfg)) THEN -1
  ELSE NgramIndexFrom(Tail(ngram), cfg, base, index * base + CharToInt(cfg, ngram[1]))

ngram_to_index(ngram, cfg) ==
  NgramIndexFrom(ngram, cfg, Cardinality(Range(effective_character_set(cfg))), 0)

\* text[i : i + ngram_size], i from 0
NgramAt(text, cfg, i) == SubSeq(text, i + 1, i + cfg.ngram_size)

\* range(len(text) - ngram_size + 1)
NgramStarts(text, cfg) == 0..(Len(text) - cfg.ngram_size)

----------------------------------------------------------------------------
(* Trigram: delta encoding and posting lists *)

\* _delta_encode on record_ids
delta_encode(ids) ==
  [i \in DOMAIN ids |-> IF i = 1 THEN ids[1] ELSE ids[i] - ids[i - 1]]

\* a decoder that adds to each element the stored element before it
delta_decode_Stored(ids) ==
  [i \in DOMAIN ids |-> IF i = 1 THEN ids[1] ELSE ids[i] + ids[i - 1]]

\* _delta_decode on record_ids: prefix sums
RECURSIVE delta_decode(_)
delta_decode(ids) ==
  IF Len(ids) <= 1 THEN ids
  ELSE LET front == delta_decode(SubSeq(ids, 1, Len(ids) - 1))
       IN Append(front, ids[Len(ids)] + front[Len(front)])

\* PostingList.SerializeToString / ParseFromString
SerializePL(record_ids, record_offsets) ==
  IF record_ids = <<>> /\ record_offsets = <<>> THEN EmptyBytes
  ELSE [tag |-> "postings", record_ids |-> record_ids,
        record_offsets |-> record_offsets]

ParsePL(bytes) ==
  IF bytes = EmptyBytes THEN [record_ids |-> <<>>, record_offsets |-> <<>>]
  ELSE [record_ids |-> bytes.record_ids, record_offsets |-> bytes.record_offsets]

\* tuple order of (record id, offset) pairs
PairLess(p, q) == p[1] < q[1] \/ (p[1] = q[1] /\ p[2] < q[2])

RECURSIVE InsertPair(_, _)
InsertPair(s, p) ==
  IF s = <<>> THEN <<p>>
  ELSE IF PairLess(p, s[1]) THEN <<p>> \o s
  ELSE <<s[1]>> \o InsertPair(Tail(s), p)

\* sorted(list of pairs), equal pairs kept
RECURSIVE SortedPairs(_)
SortedPairs(s) ==
  IF s = <<>> THEN <<>>
  ELSE InsertPair(SortedPairs(SubSeq(s, 1, Len(s) - 1)), s[Len(s)])

\* [k for k, _ in itertools.groupby(sorted pairs)]
RECURSIVE DedupPairs(_)
DedupPairs(s) ==
  IF Len(s) <= 1 THEN s
  ELSE IF s[1] = s[2] THEN DedupPairs(Tail(s))
  ELSE <<s[1]>> \o DedupPairs(Tail(s))

Firsts(pairs) == [i \in DOMAIN pairs |-> pairs[i][1]]
Seconds(pairs) == [i \in DOMAIN pairs |-> pairs[i][2]]

\* zip(record_ids, record_offsets, strict=True)
Zip(ids, offs) == [i \in DOMAIN ids |-> <<ids[i], offs[i]>>]

\* if config.delta_encode_record_ids: _delta_encode(message)
EncodeIds(cfg, ids) == IF cfg.delta_encode_record_ids THEN delta_encode(ids) ELSE ids

\* TrigramReader._get_record_ids
get_record_ids(cfg, ids) == IF cfg.delta_encode_record_ids THEN delta_decode(ids) ELSE ids

----------------------------------------------------------------------------
(* Trigram: the configs, texts and queries of the builds *)

TriConfig(cs, n, norm, pos, delta) ==
  [type |-> "trigram", character_set |-> cs, ngram_size |-> n, normalize |-> norm,
   store_positions |-> pos, delta_encode_record_ids |-> delta]

\* every mode over the character set "ab", and a config whose character
\* set "ba" is not in sorted order
TriConfigs ==
  {TriConfig(<<97, 98>>, 2, norm, pos, delta) :
     norm \in BOOLEAN, pos \in BOOLEAN, delta \in BOOLEAN}
  \cup {TriConfig(<<98, 97>>, 2, FALSE, FALSE, FALSE)}

\* "ab", "bba", "aaa", "Axb"
Texts == {<<97, 98>>, <<98, 98, 97>>, <<97, 97, 97>>, <<65, 120, 98>>}

\* "ab", "aba", "aa", "Axb", "a"
Queries == {<<97, 98>>, <<97, 98, 97>>, <<97, 97>>, <<65, 120, 98>>, <<97>>}

RecordIds == {1, 2}

----------------------------------------------------------------------------
(* Trigram writer *)

\* len(config.effective_character_set) ** config.ngram_size
NumPostings(cfg) == Pow(Len(effective_character_set(cfg)), cfg.ngram_size)

\* _SimpleImpl.__init__ / _PositionalImpl.__init__
NewPostings(cfg) ==
  [k \in 0..(NumPostings(cfg) - 1) |-> IF cfg.store_positions THEN <<>> ELSE {}]

\* _SimpleImpl.add_text
SimpleAddText(cfg, postings, text, record_id) ==
  [k \in DOMAIN postings |->
     IF \E i \in NgramStarts(text, cfg) : ngram_to_index(NgramAt(text, cfg, i), cfg) = k
       THEN postings[k] \cup {record_id}
       ELSE postings[k]]

\* the (record_id, i) pairs one text appends to slot k, i ascending
RECURSIVE SlotPairsFrom(_, _, _, _, _)
SlotPairsFrom(cfg, text, record_id, k, i) ==
  IF i > Len(text) - cfg.ngram_size THEN <<>>
  ELSE (IF ngram_to_index(NgramAt(text, cfg, i), cfg) = k
          THEN <<<<record_id, i>>>> ELSE <<>>)
       \o SlotPairsFrom(cfg, text, record_id, k, i + 1)

\* _PositionalImpl.add_text
PositionalAddText(cfg, postings, text, record_id) ==
  [k \in DOMAIN postings |-> postings[k] \o SlotPairsFrom(cfg, text, record_id, k, 0)]

\* TrigramWriter.add_text
TriAddText(cfg, postings, text, record_id) ==
  LET t == IF cfg.normalize THEN normalize_text(text, cfg) ELSE text
  IN IF cfg.store_positions
       THEN PositionalAddText(cfg, postings, t, record_id)
       ELSE SimpleAddText(cfg, postings, t, record_id)

\* sorted(zip(rids, offsets, strict=True)) in _PositionalImpl.write
PositionalSort(pairs) == SortedPairs(pairs)

\* _SimpleImpl.write
SimpleWriteEntries(cfg, postings) ==
  [i \in 1..NumPostings(cfg) |->
     SerializePL(EncodeIds(cfg, SortedInts(postings[i - 1])), <<>>)]
  \o <<TriToJson(cfg)>>

\* _PositionalImpl.write
PositionalWriteEntries(cfg, postings) ==
  [i \in 1..NumPostings(cfg) |->
     LET posting_tuples == PositionalSort(postings[i - 1])
     IN SerializePL(EncodeIds(cfg, Firsts(posting_tuples)), Seconds(posting_tuples))]
  \o <<TriToJson(cfg)>>

\* TrigramWriter.write
TriWriteEntries(cfg, postings) ==
  IF cfg.store_positions THEN PositionalWriteEntries(cfg, postings)
  ELSE SimpleWriteEntries(cfg, postings)

----------------------------------------------------------------------------
(* Trigram reader *)

\* a matcher before its first add: _matches is None / _first_position
NewMatcher == [first |-> TRUE, matches |-> {}]

\* _SimpleNGramMatcher.add / _PositionNGramMatcher.add
MatcherAdd(cfg, m, i, pl) ==
  LET found == IF cfg.store_positions
                 THEN {<<pl.record_ids[j], pl.record_offsets[j] - i>> : j \in DOMAIN pl.record_ids}
                 ELSE Range(pl.record_ids)
  IN [first |-> FALSE,
      matches |-> IF m.first THEN found ELSE m.matches \cap found]

\* no_remaining_matches of either matcher
NoRemainingMatches(m) == ~m.first /\ m.matches = {}

\* record_ids of either matcher
MatcherRecordIds(cfg, m) ==
  IF cfg.store_positions THEN SortedInts({p[1] : p \in m.matches})
  ELSE IF m.first THEN <<>> ELSE SortedInts(m.matches)

\* the loop of TrigramReader.search from position i
RECURSIVE SearchFrom(_, _, _, _, _)
SearchFrom(cfg, entries, query, i, m) ==
  IF i > Len(query) - cfg.ngram_size THEN MatcherRecordIds(cfg, m)
  ELSE LET index == ngram_to_index(NgramAt(query, cfg, i), cfg)
       IN IF index = -1 THEN SearchFrom(cfg, entries, query, i + 1, m)
          ELSE LET parsed == ParsePL(entries[index + 1])
                   pl == [parsed EXCEPT !.record_ids = get_record_ids(cfg, @)]
                   m2 == MatcherAdd(cfg, m, i, pl)
               IN IF NoRemainingMatches(m2) THEN <<>>
                  ELSE SearchFrom(cfg, entries, query, i + 1, m2)

\* TrigramReader.search with the reader's config
TriSearch(cfg, entries, query) ==
  LET q == IF cfg.normalize THEN normalize_text(query, cfg) ELSE query
  IN IF Len(q) < cfg.ngram_size THEN <<>>
     ELSE SearchFrom(cfg, entries, q, 0, NewMatcher)

----------------------------------------------------------------------------
(* Trigram merger *)

\* all_tuples.extend(zip(...)) over the posting lists, in order
RECURSIVE AllTuples(_)
AllTuples(pls) ==
  IF pls = <<>> THEN <<>>
  ELSE Zip(pls[1].record_ids, pls[1].record_offsets) \o AllTuples(Tail(pls))

\* TrigramMerger._merge_with_positions
MergeWithPositions(cfg, pls) ==
  LET unique_tuples == DedupPairs(SortedPairs(AllTuples(pls)))
  IN SerializePL(EncodeIds(cfg, Firsts(unique_tuples)), Seconds(unique_tuples))

\* TrigramMerger._merge_without_positions
MergeWithoutPositions(cfg, pls) ==
  SerializePL(
    EncodeIds(cfg, SortedInts(UNION {Range(pl.record_ids) : pl \in Range(pls)})),
    <<>>)

\* the non-empty entries of slot i, in reader order
RECURSIVE NonEmptyData(_, _)
NonEmptyData(inputs, i) ==
  IF inputs = <<>> THEN <<>>
  ELSE (IF inputs[1][i] # EmptyBytes THEN <<inputs[1][i]>> ELSE <<>>)
       \o NonEmptyData(Tail(inputs), i)

\* a merger that does not delta-decode its inputs
MergeTrigram_NoDecode(cfg, inputs, i) ==
  LET data == NonEmptyData(inputs, i)
  IN IF data = <<>> THEN EmptyBytes
     ELSE IF Len(data) = 1 THEN data[1]
     ELSE LET pls == [j \in DOMAIN data |-> ParsePL(data[j])]
          IN IF cfg.store_positions THEN MergeWithPositions(cfg, pls)
             ELSE MergeWithoutPositions(cfg, pls)

\* TrigramMerger._merge_trigram: the bytes written for slot i
MergeTrigram(cfg, inputs, i) ==
  LET data == NonEmptyData(inputs, i)
  IN IF data = <<>> THEN EmptyBytes
     ELSE IF Len(data) = 1 THEN data[1]
     ELSE LET pls == [j \in DOMAIN data |->
                        [ParsePL(data[j]) EXCEPT !.record_ids = get_record_ids(cfg, @)]]
          IN IF cfg.store_positions THEN MergeWithPositions(cfg, pls)
             ELSE MergeWithoutPositions(cfg, pls)

\* TrigramMerger.__call__: the entries of the merged bag file
TriMergeEntries(cfg, inputs) ==
  IF inputs = <<>> THEN <<TriToJson(cfg)>>
  ELSE [i \in 1..(Len(inputs[1]) - 1) |-> MergeTrigram(cfg, inputs, i)]
       \o <<TriToJson(cfg)>>

----------------------------------------------------------------------------
(* Config registry and merge_indices *)

\* core.config_from_json on a descriptor entry: dispatch on the type tag
config_from_json(entry) ==
  IF entry.obj.type = "hashbucket" THEN HBFromJson(entry.obj)
  ELSE TriFromJson(entry.obj)

\* core._config_from_bagz: the config of the trailing descriptor
ConfigFromBagz(file) == config_from_json(file.entries[Len(file.entries)])

\* config.make_merger()(inputs, output): the entries written to the output
MergerEntries(cfg, inputs) ==
  IF cfg.type = "hashbucket" THEN HBMergeEntries(cfg, inputs)
  ELSE TriMergeEntries(cfg, inputs)

\* core.merge_indices: [err, fs], the error raised (or "none") and the file
\* system it leaves
merge_indices(files, input_paths, output_path) ==
  IF input_paths = <<>> THEN [err |-> "ValueError", fs |-> files]
  ELSE IF \E i \in DOMAIN input_paths : ~files[input_paths[i]].exists
    THEN [err |-> "IOError", fs |-> files]
  ELSE LET configs == [i \in DOMAIN input_paths |-> ConfigFromBagz(files[input_paths[i]])]
       IN IF \E i \in DOMAIN configs : configs[i] # configs[1]
            THEN [err |-> "ValueError", fs |-> files]
            ELSE [err |-> "none",
                  fs |-> [files EXCEPT ![output_path] =
                            BagFile(MergerEntries(configs[1],
                              [i \in DOMAIN input_paths |-> files[input_paths[i]].entries]))]]

----------------------------------------------------------------------------
(* The scenarios: two writers of one config are fed and written one after  *)
(* the other, their indices merged and queried, as the tests of the        *)
(* repository do                                                           *)

WriterPath == [w \in {1, 2} |-> IF w = 1 THEN "idx1" ELSE "idx2"]

Paths == {"idx1", "idx2", "merged"}

\* writer w is the one being built: writer 2 is made once writer 1 is written
Building(w) ==
  /\ ~fs[WriterPath[w]].exists
  /\ w = 2 => fs["idx1"].exists

\* the indices the scenarios query
QueryPaths == {"idx1", "merged"}

NoConfig == [type |-> "none"]

HBIdle ==
  /\ hcfg = NoConfig
  /\ digest = <<>>
  /\ hdata = <<>>
  /\ hlog = <<>>
  /\ hres = [path |-> "", key |-> <<>>, result |-> NotFound]

MergeIdle ==
  /\ writers = <<>>
  /\ mres = <<>>

\* no function call is followed
NoCall == [op |-> "none"]

CallIdle == pf = NoCall

ShardIdle ==
  /\ builder = <<>>
  /\ bpc = "idle"
  /\ btmp = "none"
  /\ bbody = "running"
  /\ berr = "none"
  /\ blog = <<>>

TriIdle ==
  /\ tcfg = NoConfig
  /\ tpost = <<>>
  /\ tlog = <<>>
  /\ tres = [path |-> "", query |-> <<>>, result |-> <<>>]

HBInit ==
  /\ fs = [p \in Paths |-> NoFile]
  /\ hcfg \in HBConfigs
  /\ digest \in [KeyBytesOf(hcfg.key_proto_name) -> HashValues]
  /\ hdata = [w \in {1, 2} |-> <<>>]
  /\ hlog = <<>>
  /\ hres = [path |-> "", key |-> <<>>, result |-> NotFound]
  /\ TriIdle
  /\ ShardIdle
  /\ MergeIdle
  /\ CallIdle

\* writer w: add(key, record_ids)
HBAddAct(w, key, ids) ==
  /\ Building(w)
  /\ Len(hlog) < MaxAdds
  /\ hdata' = [hdata EXCEPT ![w] = HBAdd(@, key, ids)]
  /\ hlog' = Append(hlog, [w |-> w, key |-> key, ids |-> ids])
  /\ UNCHANGED <<fs, hcfg, digest, hres, trivars, shvars, mgvars, pfvars>>

\* writer w: write(path)
HBWriteAct(w) ==
  /\ Building(w)
  /\ fs' = [fs EXCEPT ![WriterPath[w]] = BagFile(HBWriteEntries(hcfg, hdata[w]))]
  /\ UNCHANGED <<hbvars, trivars, shvars, mgvars, pfvars>>

\* merge_indices([idx1, idx2], merged)
MergeAct ==
  /\ fs["idx1"].exists /\ fs["idx2"].exists /\ ~fs["merged"].exists
  /\ fs' = merge_indices(fs, <<"idx1", "idx2">>, "merged").fs
  /\ UNCHANGED <<hbvars, trivars, shvars, mgvars, pfvars>>

\* make_reader(path, SupportsKeyLookup).lookup(key)
HBLookupAct(path, key) ==
  /\ fs["merged"].exists
  /\ hres' = [path |-> path, key |-> SerializeToString(key),
              result |-> HBLookup(fs[path].entries, key)]
  /\ UNCHANGED <<fs, hcfg, digest, hdata, hlog, trivars, shvars, mgvars, pfvars>>

HBNext ==
  /\ hcfg.type = "hashbucket"
  /\ \/ \E w \in {1, 2}, key \in KeysOf(hcfg.key_proto_name), ids \in IdSeqs :
          HBAddAct(w, key, ids)
     \/ \E w \in {1, 2} : HBWriteAct(w)
     \/ MergeAct
     \/ \E path \in QueryPaths, key \in KeysOf(hcfg.key_proto_name) : HBLookupAct(path, key)

SpecHB == HBInit /\ [][HBNext]_vars

TriInit ==
  /\ fs = [p \in Paths |-> NoFile]
  /\ tcfg \in TriConfigs
  /\ tpost = [w \in {1, 2} |-> NewPostings(tcfg)]
  /\ tlog = <<>>
  /\ tres = [path |-> "", query |-> <<>>, result |-> <<>>]
  /\ HBIdle
  /\ ShardIdle
  /\ MergeIdle
  /\ CallIdle

\* writer w: add_text(text, record_id)
TriAddTextAct(w, text, rid) ==
  /\ Building(w)
  /\ Len(tlog) < MaxTexts
  /\ tpost' = [tpost EXCEPT ![w] = TriAddText(tcfg, @, text, rid)]
  /\ tlog' = Append(tlog, [w |-> w, text |-> text, rid |-> rid])
  /\ UNCHANGED <<fs, tcfg, tres, hbvars, shvars, mgvars, pfvars>>

\* writer w: write(path)
TriWriteAct(w) ==
  /\ Building(w)
  /\ fs' = [fs EXCEPT ![WriterPath[w]] = BagFile(TriWriteEntries(tcfg, tpost[w]))]
  /\ UNCHANGED <<hbvars, trivars, shvars, mgvars, pfvars>>

\* make_reader(path, SupportsTextSearch).search(query)
TriSearchAct(path, query) ==
  /\ fs["merged"].exists
  /\ tres' = [path |-> path, query |-> query,
              result |-> TriSearch(ConfigFromBagz(fs[path]), fs[path].entries, query)]
  /\ UNCHANGED <<fs, tcfg, tpost, tlog, hbvars, shvars, mgvars, pfvars>>

TriNext ==
  /\ tcfg.type = "trigram"
  /\ \/ \E w \in {1, 2}, text \in Texts, rid \in RecordIds : TriAddTextAct(w, text, rid)
     \/ \E w \in {1, 2} : TriWriteAct(w)
     \/ MergeAct
     \/ \E path \in QueryPaths, query \in Queries : TriSearchAct(path, query)

SpecTri == TriInit /\ [][TriNext]_vars

\* the two families of writers side by side
WritersInit == HBInit \/ TriInit

\* the writers only: add or add_text calls, and write
WritersNext ==
  \/ /\ hcfg.type = "hashbucket"
     /\ \E w \in {1, 2}, key \in KeysOf(hcfg.key_proto_name), ids \in IdSeqs :
          HBAddAct(w, key, ids)
  \/ /\ hcfg.type = "hashbucket"
     /\ \E w \in {1, 2} : HBWriteAct(w)
  \/ /\ tcfg.type = "trigram"
     /\ \E w \in {1, 2}, text \in Texts, rid \in RecordIds : TriAddTextAct(w, text, rid)
  \/ /\ tcfg.type = "trigram"
     /\ \E w \in {1, 2} : TriWriteAct(w)

SpecWriters == WritersInit /\ [][WritersNext]_vars

----------------------------------------------------------------------------
(* The sharded index builder *)

\* f"{stem}-{shard_id:05d}{suffix}" in the temporary directory
ShardNames ==
  <<"tmp/out-00000.bagz", "tmp/out-00001.bagz", "tmp/out-00002.bagz",
    "tmp/out-00003.bagz", "tmp/out-00004.bagz", "tmp/out-00005.bagz">>

ShardPath(shard_id) == ShardNames[shard_id + 1]

OutputPath == "out.bagz"

ShardFiles == Range(ShardNames) \cup {OutputPath}

\* the configs make_hashtable_index and make_trigram_index build with
\* (the trigram one over the character set "ab" and 2-grams)
ShardConfigs ==
  { [type |-> "hashbucket", avg_num |-> 9, avg_den |-> 10,
     key_proto_name |-> "bagz_index.keys.StringKey"],
    TriConfig(<<97, 98>>, 2, TRUE, TRUE, TRUE) }

NoWriter == [live |-> FALSE, data |-> <<>>]

\* ShardedKeyIndexBuilder._make_writer / ShardedTextIndexBuilder._make_writer
MakeWriter(cfg) ==
  [live |-> TRUE,
   data |-> IF cfg.type = "hashbucket" THEN <<>> ELSE NewPostings(cfg)]

\* ShardedIndexBuilder.__init__
NewBuilder(cfg, shard_limit) ==
  [config |-> cfg, shard_limit |-> shard_limit, current_writer |-> NoWriter,
   current_shard_record_count |-> 0, shard_paths |-> <<>>, shard_id |-> 0]

\* ShardedIndexBuilder._new_shard_writer: the builder after the call (the
\* writer it returns is MakeWriter(b.config))
new_shard_writer(b) ==
  [b EXCEPT !.shard_paths = Append(@, ShardPath(b.shard_id)),
            !.current_shard_record_count = 0,
            !.shard_id = @ + 1]

\* the current_writer property: the builder once the writer is there
WithCurrentWriter(b) ==
  IF b.current_writer.live THEN b
  ELSE [new_shard_writer(b) EXCEPT !.current_writer = MakeWriter(b.config)]

\* IndexWriter.write of the builder's writer
WriterEntries(cfg, data) ==
  IF cfg.type = "hashbucket" THEN HBWriteEntries(cfg, data)
  ELSE TriWriteEntries(cfg, data)

\* ShardedIndexBuilder._write_current_shard: [builder, fs]
write_current_shard(b, files) ==
  IF b.current_writer.live
    THEN [builder |-> [b EXCEPT !.current_writer = NoWriter],
          fs |-> [files EXCEPT ![b.shard_paths[Len(b.shard_paths)]] =
                    BagFile(WriterEntries(b.config, b.current_writer.data))]]
    ELSE [builder |-> b, fs |-> files]

\* a builder that flushes once the count has passed the limit
record_added_Late(b, files) ==
  LET counted == [b EXCEPT !.current_shard_record_count = @ + 1]
  IN IF counted.current_shard_record_count > counted.shard_limit
       THEN write_current_shard(counted, files)
       ELSE [builder |-> counted, fs |-> files]

\* ShardedIndexBuilder.record_added: [builder, fs]
record_added(b, files) ==
  LET counted == [b EXCEPT !.current_shard_record_count = @ + 1]
  IN IF counted.current_shard_record_count >= counted.shard_limit
       THEN write_current_shard(counted, files)
       ELSE [builder |-> counted, fs |-> files]

\* the writer's add / add_text on one record
WriterAdd(cfg, data, rec) ==
  IF cfg.type = "hashbucket" THEN HBAdd(data, rec.key, rec.ids)
  ELSE TriAddText(cfg, data, rec.text, rec.rid)

\* the records a build feeds: (key, [i]) or (text, i)
ShardRecords(cfg) ==
  IF cfg.type = "hashbucket"
    THEN {[key |-> k, ids |-> <<i>>] : k \in KeysOf(cfg.key_proto_name), i \in RecordIds}
    ELSE {[text |-> t, rid |-> i] : t \in Texts, i \in RecordIds}

ShardInit ==
  /\ fs = [p \in ShardFiles |-> NoFile]
  /\ \E cfg \in ShardConfigs, limit \in 1..MaxShardLimit :
       /\ builder = NewBuilder(cfg, limit)
       /\ digest \in (IF cfg.type = "hashbucket"
                        THEN [KeyBytesOf(cfg.key_proto_name) -> HashValues]
                        ELSE {<<>>})
  /\ bpc = "new"
  /\ btmp = "none"
  /\ bbody = "running"
  /\ berr = "none"
  /\ blog = <<>>
  /\ hcfg = NoConfig /\ hdata = <<>> /\ hlog = <<>>
  /\ hres = [path |-> "", key |-> <<>>, result |-> NotFound]
  /\ TriIdle
  /\ MergeIdle
  /\ CallIdle

\* ShardedIndexBuilder.__enter__
EnterAct ==
  /\ bpc = "new"
  /\ btmp' = "open"
  /\ builder' = new_shard_writer(builder)
  /\ bpc' = "open"
  /\ UNCHANGED <<fs, bbody, berr, blog, hbvars, trivars, mgvars, pfvars>>

\* ShardedKeyIndexBuilder.add_record / ShardedTextIndexBuilder.add_record
AddRecordAct(rec) ==
  /\ bpc = "open"
  /\ Len(blog) < MaxRecords
  /\ LET b1 == WithCurrentWriter(builder)
         b2 == [b1 EXCEPT !.current_writer.data = WriterAdd(b1.config, @, rec)]
         r == record_added(b2, fs)
     IN /\ builder' = r.builder
        /\ fs' = r.fs
  /\ blog' = Append(blog, rec)
  /\ UNCHANGED <<bpc, btmp, bbody, berr, hbvars, trivars, mgvars, pfvars>>

\* the body of the with statement ends, by returning or by raising:
\* __exit__ is entered
BodyEndsAct(raises) ==
  /\ bpc = "open"
  /\ bpc' = "exit_flush"
  /\ bbody' = IF raises THEN "raised" ELSE "returned"
  /\ UNCHANGED <<fs, builder, btmp, berr, blog, hbvars, trivars, mgvars, pfvars>>

\* __exit__: self._write_current_shard(); the bag file writer may fail
ExitFlushAct(io_fails) ==
  /\ bpc = "exit_flush"
  /\ IF builder.current_writer.live /\ io_fails
       THEN /\ bpc' = "flush_raised"
            /\ berr' = "IOError"
            /\ UNCHANGED <<fs, builder>>
       ELSE /\ builder' = write_current_shard(builder, fs).builder
            /\ fs' = write_current_shard(builder, fs).fs
            /\ bpc' = "exit_merge"
            /\ UNCHANGED berr
  /\ UNCHANGED <<btmp, bbody, blog, hbvars, trivars, mgvars, pfvars>>

\* __exit__: core.merge_indices(shard_paths, output), cleanup_stack.close()
ExitMergeAct ==
  /\ bpc = "exit_merge"
  /\ LET m == IF builder.shard_paths # <<>>
                THEN merge_indices(fs, builder.shard_paths, OutputPath)
                ELSE [err |-> "none", fs |-> fs]
     IN IF m.err # "none"
          THEN /\ bpc' = "merge_raised"
               /\ berr' = m.err
               /\ UNCHANGED <<fs, btmp>>
          ELSE /\ bpc' = "closed"
               /\ fs' = [p \in ShardFiles |->
                           IF p = OutputPath THEN m.fs[p] ELSE NoFile]
               /\ btmp' = "released"
               /\ UNCHANGED berr
  /\ UNCHANGED <<builder, bbody, blog, hbvars, trivars, mgvars, pfvars>>

ShardNext ==
  \/ EnterAct
  \/ \E rec \in ShardRecords(builder.config) : AddRecordAct(rec)
  \/ \E raises \in BOOLEAN : BodyEndsAct(raises)
  \/ \E io_fails \in BOOLEAN : ExitFlushAct(io_fails)
  \/ ExitMergeAct

SpecShard == ShardInit /\ [][ShardNext]_vars

----------------------------------------------------------------------------
(* merge_indices over indices of any configs *)

\* the configs the two writers are made with
MixConfigs ==
  HBConfigs \cup { TriConfig(<<97, 98>>, 2, FALSE, FALSE, FALSE),
                   TriConfig(<<98, 97>>, 2, FALSE, FALSE, FALSE),
                   TriConfig(<<97, 98>>, 2, FALSE, TRUE, FALSE) }

AllKeyBytes == UNION {KeyBytesOf(cfg.key_proto_name) : cfg \in HBConfigs}

\* the records the writers are fed
WriterRecords(cfg) ==
  IF cfg.type = "hashbucket"
    THEN {[key |-> k, ids |-> <<1>>] : k \in KeysOf(cfg.key_proto_name)}
    ELSE {[text |-> t, rid |-> 1] : t \in {<<97, 98>>, <<98, 98, 97>>}}

\* the lists of input paths merge_indices is called with
MergeInputs ==
  {<<>>} \cup {<<p>> : p \in {"idx1", "idx2"}}
         \cup {<<p, q>> : p \in {"idx1", "idx2"}, q \in {"idx1", "idx2"}}

NoMerge == [called |-> FALSE, paths |-> <<>>, err |-> "none", before |-> NoFile]

NotMade == [state |-> "none"]

MergeInit ==
  /\ fs = [p \in Paths |-> NoFile]
  /\ digest \in [AllKeyBytes -> HashValues]
  /\ writers = [w \in {1, 2} |-> NotMade]
  /\ mres = NoMerge
  /\ hcfg = NoConfig /\ hdata = <<>> /\ hlog = <<>>
  /\ hres = [path |-> "", key |-> <<>>, result |-> NotFound]
  /\ TriIdle
  /\ ShardIdle
  /\ CallIdle

\* core.make_writer(cfg, protocol)
MakeWriterAct(w, cfg) ==
  /\ writers[w] = NotMade
  /\ w = 2 => writers[1].state = "written"
  /\ writers' = [writers EXCEPT ![w] =
       [state |-> "live", config |-> cfg, data |-> MakeWriter(cfg).data, adds |-> 0]]
  /\ UNCHANGED <<fs, digest, mres, hcfg, hdata, hlog, hres, trivars, shvars, pfvars>>

\* writer w: add(key, record_ids) or add_text(text, record_id)
WriterAddAct(w, rec) ==
  /\ writers[w].state = "live"
  /\ writers[w].adds < MaxWriterAdds
  /\ writers' = [writers EXCEPT ![w].data = WriterAdd(writers[w].config, @, rec),
                                ![w].adds = @ + 1]
  /\ UNCHANGED <<fs, digest, mres, hcfg, hdata, hlog, hres, trivars, shvars, pfvars>>

\* writer w: write(path)
WriterWriteAct(w) ==
  /\ writers[w].state = "live"
  /\ fs' = [fs EXCEPT ![WriterPath[w]] =
              BagFile(WriterEntries(writers[w].config, writers[w].data))]
  /\ writers' = [writers EXCEPT ![w] = [state |-> "written"]]
  /\ UNCHANGED <<digest, mres, hcfg, hdata, hlog, hres, trivars, shvars, pfvars>>

\* core.merge_indices(paths, "merged")
MergeIndicesAct(paths) ==
  /\ ~fs["merged"].exists
  /\ LET m == merge_indices(fs, paths, "merged")
     IN /\ fs' = m.fs
        /\ mres' = [called |-> TRUE, paths |-> paths, err |-> m.err,
                    before |-> fs["merged"]]
  /\ UNCHANGED <<digest, writers, hcfg, hdata, hlog, hres, trivars, shvars, pfvars>>

MergeNext ==
  \/ \E w \in {1, 2}, cfg \in MixConfigs : MakeWriterAct(w, cfg)
  \/ \E w \in {1, 2} :
       /\ writers[w].state = "live"
       /\ \E rec \in WriterRecords(writers[w].config) : WriterAddAct(w, rec)
  \/ \E w \in {1, 2} : WriterWriteAct(w)
  \/ \E paths \in MergeInputs : MergeIndicesAct(paths)

SpecMerge == MergeInit /\ [][MergeNext]_vars

----------------------------------------------------------------------------
(* What the add calls of the history amount to *)

\* the writer state after all the add calls of a history, in order
RECURSIVE HBAddAll(_)
HBAddAll(log) ==
  IF log = <<>> THEN <<>>
  ELSE HBAdd(HBAddAll(SubSeq(log, 1, Len(log) - 1)), log[Len(log)].key, log[Len(log)].ids)

RECURSIVE TriAddAll(_, _)
TriAddAll(cfg, log) ==
  IF log = <<>> THEN NewPostings(cfg)
  ELSE TriAddText(cfg, TriAddAll(cfg, SubSeq(log, 1, Len(log) - 1)),
                  log[Len(log)].text, log[Len(log)].rid)

\* the add calls made on the writers ws under a key
AddsOf(ws, key) == {i \in DOMAIN hlog : hlog[i].w \in ws /\ hlog[i].key = key}

\* what lookup is to return: the ascending ids added under the key, or None
ExpectedLookup(ws, key) ==
  IF AddsOf(ws, key) = {} THEN NotFound
  ELSE [found |-> TRUE,
        ids |-> SortedInts(UNION {Range(hlog[i].ids) : i \in AddsOf(ws, key)})]

HBKeys == KeysOf(hcfg.key_proto_name)

\* the index one writer builds from the whole history
HBWholeEntries == HBWriteEntries(hcfg, HBAddAll(hlog))

----------------------------------------------------------------------------
(* C1: on the index a HashBucketWriter wrote, lookup(k) returns the       *)
(* ascending duplicate-free tuple of all record ids added under k, and    *)
(* None for a key that was never added.                                   *)
C1_LookupReturnsAdded ==
  hcfg.type = "hashbucket" =>
    /\ \A w \in {1, 2} :
         fs[WriterPath[w]].exists =>
           \A key \in HBKeys :
             HBLookup(fs[WriterPath[w]].entries, key) = ExpectedLookup({w}, key)
    /\ \A w \in {1, 2}, key \in HBKeys :
         (hres.path = WriterPath[w] /\ hres.key = SerializeToString(key))
           => hres.result = ExpectedLookup({w}, key)

\* a lookup on idx1 returned the union (1, 2) of two adds under one key,
\* while another key of the index was not found
C1_Witness ==
  /\ hcfg.type = "hashbucket"
  /\ hres.path = "idx1"
  /\ hres.result = [found |-> TRUE, ids |-> <<1, 2>>]
  /\ Len(hlog) = 2
  /\ hlog[1].w = 1 /\ hlog[2].w = 1
  /\ hlog[1].key = hlog[2].key
  /\ hlog[1].ids = <<1>> /\ hlog[2].ids = <<2, 1>>
  /\ \E key \in HBKeys : HBLookup(fs["idx1"].entries, key) = NotFound

(* C4: the merge of the indices of the two parts answers every lookup as  *)
(* one index built from the whole sequence of add calls.                  *)
C4_MergeEqualsUnsplit ==
  (hcfg.type = "hashbucket" /\ fs["merged"].exists) =>
    /\ \A key \in HBKeys :
         HBLookup(fs["merged"].entries, key) = HBLookup(HBWholeEntries, key)
    /\ \A key \in HBKeys :
         (hres.path = "merged" /\ hres.key = SerializeToString(key))
           => hres.result = HBLookup(HBWholeEntries, key)

\* a lookup on the merged index returned ids of both parts
C4_Witness ==
  /\ hcfg.type = "hashbucket"
  /\ hres.path = "merged"
  /\ hres.result = [found |-> TRUE, ids |-> <<1, 2>>]
  /\ Len(hlog) = 2
  /\ hlog[1].w = 1 /\ hlog[2].w = 2
  /\ hlog[1].key = hlog[2].key
  /\ hlog[1].ids = <<1>> /\ hlog[2].ids = <<2, 1>>

----------------------------------------------------------------------------
(* What the add_text calls of the history amount to *)

\* the text a writer of the config indexes, and the query a reader runs
IndexedText(cfg, text) == IF cfg.normalize THEN normalize_text(text, cfg) ELSE text

\* q is a contiguous substring of t
Contains(t, q) == \E i \in 0..(Len(t) - Len(q)) : SubSeq(t, i + 1, i + Len(q)) = q

\* the add_text calls made on the writers ws whose indexed text contains q
TextsContaining(ws, q) ==
  {i \in DOMAIN tlog : tlog[i].w \in ws /\ Contains(IndexedText(tcfg, tlog[i].text), q)}

\* the record ids with an indexed text containing q
RidsContaining(ws, q) == {tlog[i].rid : i \in TextsContaining(ws, q)}

\* search as make_reader(path).search runs it
SearchFile(path, query) ==
  TriSearch(ConfigFromBagz(fs[path]), fs[path].entries, query)

\* the index one writer builds from the whole history
TriWholeEntries == TriWriteEntries(tcfg, TriAddAll(tcfg, tlog))

\* the query, as the reader runs it, has at least ngram_size characters,
\* all of them in the effective character set (no n-gram of it is skipped)
QueryInScope(cfg, q) ==
  /\ Len(IndexedText(cfg, q)) >= cfg.ngram_size
  /\ Range(IndexedText(cfg, q)) \subseteq Range(effective_character_set(cfg))

\* the character set is in the order from_json gives it
Canonical(cfg) == cfg.character_set = SortedInts(Range(cfg.character_set))

(* C2: on a positional index, a query of length at least ngram_size       *)
(* returns exactly the record ids with an indexed text that contains the  *)
(* query (both normalized when normalize is set). Stated here for the     *)
(* queries over the effective character set and the configs whose         *)
(* character set is sorted, a part of what the claim covers.              *)
C2_PositionalSearchExact ==
  (tcfg.type = "trigram" /\ tcfg.store_positions /\ Canonical(tcfg)) =>
    \A w \in {1, 2} :
      fs[WriterPath[w]].exists =>
        \A q \in Queries :
          QueryInScope(tcfg, q) =>
            Range(SearchFile(WriterPath[w], q)) = RidsContaining({w}, IndexedText(tcfg, q))

(* C3: on an index without positions, search(q) holds every record id     *)
(* with an indexed text containing q, and only record ids whose indexed   *)
(* texts contain every n-gram of q. Stated here for the queries of at     *)
(* least ngram_size characters over the effective character set, a part   *)
(* of what the claim covers.                                              *)
C3_SimpleSearchBounds ==
  (tcfg.type = "trigram" /\ ~tcfg.store_positions) =>
    \A w \in {1, 2} :
      fs[WriterPath[w]].exists =>
        \A q \in Queries :
          QueryInScope(tcfg, q) =>
            LET qq == IndexedText(tcfg, q)
                res == Range(SearchFile(WriterPath[w], q))
            IN /\ RidsContaining({w}, qq) \subseteq res
               /\ \A rid \in res : \A i \in NgramStarts(qq, tcfg) :
                    rid \in RidsContaining({w}, NgramAt(qq, tcfg, i))

(* C5: the merge of the indices two trigram writers wrote answers every   *)
(* search as one index built from the whole sequence of add_text calls,   *)
(* in every mode of the config.                                           *)
C5_TrigramMergeEqualsUnsplit ==
  (tcfg.type = "trigram" /\ fs["merged"].exists) =>
    LET whole == TriWholeEntries
        reader == ConfigFromBagz(BagFile(whole))
    IN /\ \A q \in Queries : SearchFile("merged", q) = TriSearch(reader, whole, q)
       /\ \A q \in Queries :
            (tres.path = "merged" /\ tres.query = q) =>
              tres.result = TriSearch(reader, whole, q)

\* a search on the merged delta-encoded index returned record ids of both
\* parts, from a slot both parts had filled
C5_Witness ==
  /\ tcfg.type = "trigram"
  /\ tcfg.delta_encode_record_ids
  /\ tres.path = "merged"
  /\ tres.result = <<1, 2>>
  /\ Len(tlog) = 2
  /\ tlog[1].w = 1 /\ tlog[2].w = 2
  /\ tlog[1].rid # tlog[2].rid


----------------------------------------------------------------------------
(* The sharded builder's close *)

\* the context has been left: __exit__ returned, or raised while flushing
\* or while merging
Exited == {"closed", "flush_raised", "merge_raised"}

\* a readable descriptor, and every lookup or search finds nothing
ValidEmptyIndex(file, cfg) ==
  /\ file.exists
  /\ file.entries # <<>>
  /\ ConfigFromBagz(file) = cfg
  /\ IF cfg.type = "hashbucket"
       THEN \A key \in KeysOf(cfg.key_proto_name) :
              HBLookup(file.entries, key) = NotFound
       ELSE \A q \in Queries : TriSearch(cfg, file.entries, q) = <<>>

\* C6: a sharded builder that got no record, whose body returned, closes
\* without an error and leaves a valid empty index at the output path.
C6_ZeroRecordsValidEmptyIndex ==
  (bpc \in Exited /\ blog = <<>> /\ bbody = "returned") =>
     /\ bpc = "closed"
     /\ berr = "none"
     /\ ValidEmptyIndex(fs[OutputPath], builder.config)

\* C7: when the merger is invoked on close, every path of the shard path
\* list is a file that a shard writer wrote.
C7_MergerSeesWrittenShards ==
  bpc = "exit_merge" =>
     \A i \in 1..Len(builder.shard_paths) : fs[builder.shard_paths[i]].exists

\* C8: once the builder's context is left - normally, by an exception of the
\* body, by an error of the last flush or by an error of the merge - the
\* temporary shard directory is released.
C8_TempDirReleasedOnEveryExit ==
  bpc \in Exited => btmp = "released"

----------------------------------------------------------------------------
(* merge_indices and the descriptors of its inputs *)

\* the trailing descriptor of an index file
Descriptor(file) == file.entries[Len(file.entries)]

DescriptorsDiffer(paths) ==
  /\ \A i \in DOMAIN paths : fs[paths[i]].exists
  /\ \E i, j \in DOMAIN paths :
       Descriptor(fs[paths[i]]) # Descriptor(fs[paths[j]])

\* C9: merge_indices raises an error when the trailing descriptors of its
\* inputs are not all equal, and then the output path is as it was before
\* the call; it raises an error too when the list of inputs is empty.
C9_MergeRejectsUnequalDescriptors ==
  mres.called =>
    /\ mres.paths = <<>> => mres.err # "none"
    /\ DescriptorsDiffer(mres.paths) =>
         (mres.err # "none" /\ fs["merged"] = mres.before)

----------------------------------------------------------------------------
(* The order of the add calls of one writer *)

\* the orderings of n calls
Perms(n) == {f \in [1..n -> 1..n] : \A i, j \in 1..n : f[i] = f[j] => i = j}

Reorder(log, f) == [i \in 1..Len(log) |-> log[f[i]]]

\* the calls of the history made on writer w, in order
RECURSIVE CallsOn(_, _)
CallsOn(log, w) ==
  IF log = <<>> THEN <<>>
  ELSE IF log[1].w = w THEN <<log[1]>> \o CallsOn(Tail(log), w)
  ELSE CallsOn(Tail(log), w)

\* the index a fresh writer writes after the calls, in the order given
EntriesOfCalls(calls) ==
  IF hcfg.type = "hashbucket" THEN HBWriteEntries(hcfg, HBAddAll(calls))
  ELSE TriWriteEntries(tcfg, TriAddAll(tcfg, calls))

\* C10: whatever the order in which the add (HashBucket) or add_text
\* (trigram, simple and positional) calls of a writer are made, the index it
\* writes has the same bytes: each written index equals the one written
\* after any reordering of the calls that built it.
C10_OrderOfAddsIrrelevant ==
  \A w \in {1, 2} :
    fs[WriterPath[w]].exists =>
      LET calls == CallsOn(IF hcfg.type = "hashbucket" THEN hlog ELSE tlog, w)
      IN \A f \in Perms(Len(calls)) :
           EntriesOfCalls(Reorder(calls, f)) = fs[WriterPath[w]].entries

\* a positional writer was given the same text under two record ids, the
\* larger id first, then a text that repeats an n-gram, and has written its
\* index
C10_Witness ==
  /\ tcfg.type = "trigram"
  /\ tcfg.store_positions
  /\ fs["idx1"].exists
  /\ Len(tlog) = 3
  /\ \A i \in 1..3 : tlog[i].w = 1
  /\ tlog[1].rid > tlog[2].rid
  /\ tlog[1].text = <<98, 98, 97>> /\ tlog[2].text = <<98, 98, 97>>
  /\ tlog[3].text = <<97, 97, 97>>

----------------------------------------------------------------------------
(* Delta encoding of a posting list's record ids *)

\* nothing else of the library is in use
LibraryIdle ==
  /\ fs = [p \in Paths |-> NoFile]
  /\ HBIdle /\ TriIdle /\ ShardIdle /\ MergeIdle

\* the ascending lists of record ids, the empty one included
AscendingLists ==
  UNION {{L \in [1..n -> 0..MaxId] : \A i \in 1..(n - 1) : L[i] <= L[i + 1]}
           : n \in 0..MaxListLen}

DeltaInit ==
  /\ LibraryIdle
  /\ \E L \in AscendingLists : pf = [op |-> "new", L |-> L, record_ids |-> L]

\* _delta_encode(posting_list)
DeltaEncodeAct ==
  /\ pf.op = "new"
  /\ pf' = [pf EXCEPT !.op = "encoded", !.record_ids = delta_encode(@)]
  /\ UNCHANGED <<fs, hbvars, trivars, shvars, mgvars>>

\* _delta_decode(posting_list), on the encoded list or on the list as given
DeltaDecodeAct ==
  /\ pf.op \in {"new", "encoded"}
  /\ pf' = [pf EXCEPT !.op = IF pf.op = "encoded" THEN "decoded" ELSE "decoded_only",
                      !.record_ids = delta_decode(@)]
  /\ UNCHANGED <<fs, hbvars, trivars, shvars, mgvars>>

DeltaNext == DeltaEncodeAct \/ DeltaDecodeAct

SpecDelta == DeltaInit /\ [][DeltaNext]_vars

\* C11: for a nonempty ascending list L of record ids, _delta_decode after
\* _delta_encode gives L back and the encoded list starts with the first
\* element of L; both functions leave the empty list as it is.
C11_DeltaRoundTrip ==
  /\ pf.op = "encoded" =>
       IF pf.L = <<>> THEN pf.record_ids = <<>> ELSE pf.record_ids[1] = pf.L[1]
  /\ pf.op = "decoded" => pf.record_ids = pf.L
  /\ (pf.op = "decoded_only" /\ pf.L = <<>>) => pf.record_ids = <<>>

\* a list of three ids was encoded to other numbers and decoded again
C11_Witness ==
  /\ pf.op = "decoded"
  /\ Len(pf.L) = 3
  /\ 0 < pf.L[1] /\ pf.L[1] < pf.L[2] /\ pf.L[2] < pf.L[3]
  /\ delta_encode(pf.L) # pf.L

----------------------------------------------------------------------------
(* The JSON round trip of a config *)

\* Config.to_json: dataclasses.asdict(self) | {"type": ...}
to_json(cfg) == IF cfg.type = "hashbucket" THEN HBToJson(cfg) ELSE TriToJson(cfg)

\* the config values: HashBucketConfig(avg_bucket_size, key_proto_name) and
\* TrigramConfig(character_set, ngram_size, normalize, store_positions,
\* delta_encode_record_ids), character sets "ab", "ba", "a", "aa"
ConfigValues ==
  {[type |-> "hashbucket", avg_num |-> a[1], avg_den |-> a[2], key_proto_name |-> k] :
     a \in {<<9, 10>>, <<2, 1>>, <<1, 1>>},
     k \in {"bagz_index.keys.StringKey", "bagz_index.keys.Int64Key"}}
  \cup
  {TriConfig(cs, n, f[1], f[2], f[3]) :
     cs \in {<<97, 98>>, <<98, 97>>, <<97>>, <<97, 97>>},
     n \in {1, 2},
     f \in BOOLEAN \X BOOLEAN \X BOOLEAN}

ConfigInit ==
  /\ LibraryIdle
  /\ \E c \in ConfigValues : pf = [op |-> "config", config |-> c]

\* c.to_json()
ToJsonAct ==
  /\ pf.op = "config"
  /\ pf' = [op |-> "json", config |-> pf.config, json |-> to_json(pf.config)]
  /\ UNCHANGED <<fs, hbvars, trivars, shvars, mgvars>>

\* core.config_from_json(json_string)
ConfigFromJsonAct ==
  /\ pf.op = "json"
  /\ pf' = [op |-> "loaded", config |-> pf.config, json |-> pf.json,
            loaded |-> config_from_json(pf.json)]
  /\ UNCHANGED <<fs, hbvars, trivars, shvars, mgvars>>

ConfigNext == ToJsonAct \/ ConfigFromJsonAct

SpecConfig == ConfigInit /\ [][ConfigNext]_vars

\* C12: config_from_json(c.to_json()) equals c for every config c of either
\* family: the config read back from a descriptor is the config that was
\* written, the order of the trigram character set included.
C12_ConfigJsonRoundTrip ==
  pf.op = "loaded" => pf.loaded = pf.config

----------------------------------------------------------------------------
(* The number of buckets of a HashBucket index *)

\* the Int64Key keys 0 .. MaxKeys - 1 of the builds that are counted
CountKeys ==
  {[variant |-> "bagz_index.keys.Int64Key", str |-> <<>>, num |-> n] : n \in 0..(MaxKeys - 1)}

CountKeyBytes == {SerializeToString(k) : k \in CountKeys}

\* avg_bucket_size 0.9, 2.0 and 1.5
CountConfigs ==
  {[type |-> "hashbucket", avg_num |-> a[1], avg_den |-> a[2],
    key_proto_name |-> "bagz_index.keys.Int64Key"] : a \in {<<9, 10>>, <<2, 1>>, <<3, 2>>}}

\* three digest tables: all keys alike, by length, by value
CountDigests ==
  { [kb \in CountKeyBytes |-> 0],
    [kb \in CountKeyBytes |-> Len(kb)],
    [kb \in CountKeyBytes |-> IF kb = <<>> THEN 0 ELSE kb[2]] }

\* the keys writer 1 and writer 2 are to be given, and those not yet added
CountInit ==
  /\ fs = [p \in Paths |-> NoFile]
  /\ hcfg \in CountConfigs
  /\ digest \in CountDigests
  /\ hdata = [w \in {1, 2} |-> <<>>]
  /\ hlog = <<>>
  /\ hres = [path |-> "", key |-> <<>>, result |-> NotFound]
  /\ TriIdle /\ ShardIdle /\ MergeIdle
  /\ \E A \in SUBSET CountKeys, B \in SUBSET CountKeys :
       pf = [op |-> "count", keys |-> <<A, B>>, todo |-> <<A, B>>]

\* writer w: add(key, [1]) for its next key, in ascending order
CountAddAct(w) ==
  /\ Building(w)
  /\ pf.todo[w] # {}
  /\ LET key == CHOOSE k \in pf.todo[w] : \A o \in pf.todo[w] : k.num <= o.num
     IN /\ hdata' = [hdata EXCEPT ![w] = HBAdd(@, key, <<1>>)]
        /\ pf' = [pf EXCEPT !.todo[w] = @ \ {key}]
  /\ UNCHANGED <<fs, hcfg, digest, hlog, hres, trivars, shvars, mgvars>>

\* writer w: write(path) once all its keys are added
CountWriteAct(w) ==
  /\ pf.todo[w] = {}
  /\ HBWriteAct(w)

CountNext ==
  \/ \E w \in {1, 2} : CountAddAct(w)
  \/ \E w \in {1, 2} : CountWriteAct(w)
  \/ MergeAct

SpecCount == CountInit /\ [][CountNext]_vars

\* max(1, floor(K / avg_bucket_size)), from the definition of floor
ExpectedBuckets(cfg, K) ==
  LET q == CHOOSE b \in 0..(K * cfg.avg_den) :
             b * cfg.avg_num <= K * cfg.avg_den /\ K * cfg.avg_den < (b + 1) * cfg.avg_num
  IN IF q < 1 THEN 1 ELSE q

\* n payload entries (no descriptor among them) and then one descriptor
HasPayloadEntries(file, n) ==
  /\ Len(file.entries) = n + 1
  /\ file.entries[n + 1].tag = "json"
  /\ \A i \in 1..n : file.entries[i].tag # "json"

\* C13: a HashBucket index written from K distinct keys holds
\* max(1, floor(K / avg_bucket_size)) payload entries and then one descriptor
\* entry; the output of the merger holds that number for the K distinct
\* keys of the union of its inputs.
C13_BucketCount ==
  pf.op = "count" =>
    /\ \A w \in {1, 2} :
         fs[WriterPath[w]].exists =>
           HasPayloadEntries(fs[WriterPath[w]],
                             ExpectedBuckets(hcfg, Cardinality(pf.keys[w])))
    /\ fs["merged"].exists =>
         HasPayloadEntries(fs["merged"],
                           ExpectedBuckets(hcfg, Cardinality(pf.keys[1] \cup pf.keys[2])))

\* 4 distinct keys with avg_bucket_size 0.9, split over two writers that
\* share a key, give a merged index of length 5
C13_Witness ==
  /\ pf.op = "count"
  /\ hcfg.avg_num = 9 /\ hcfg.avg_den = 10
  /\ fs["merged"].exists
  /\ Cardinality(pf.keys[1] \cup pf.keys[2]) = 4
  /\ pf.keys[1] \cap pf.keys[2] # {}
  /\ Len(fs["merged"].entries) = 5

----------------------------------------------------------------------------
(* The posting slots of a trigram index and the slot of an n-gram *)

\* character sets "ab", "ba", "a", "ab " and "aa"; n-grams of 1 or 2
\* characters
SlotConfigs ==
  {TriConfig(cs, n, norm, FALSE, FALSE) :
     cs \in {<<97, 98>>, <<98, 97>>, <<97>>, <<97, 98, 32>>, <<97, 97>>},
     n \in {1, 2},
     norm \in BOOLEAN}

\* the characters n-grams are made of: "a", "b", " " and "x"
SlotChars == {97, 98, 32, 120}

NGrams(n) == [1..n -> SlotChars]

SlotInit ==
  /\ LibraryIdle
  /\ \E c \in SlotConfigs :
       pf = [op |-> "config", config |-> c, slots |-> -1, ngram |-> <<>>, index |-> -1]

\* make_writer(config).write(path): the number of posting slots written
SlotWriteAct ==
  /\ pf.op = "config"
  /\ pf' = [pf EXCEPT !.op = "written",
                      !.slots = Len(TriWriteEntries(pf.config, NewPostings(pf.config))) - 1]
  /\ UNCHANGED <<fs, hbvars, trivars, shvars, mgvars>>

\* get_ngram_index(ngram, config)
NgramIndexAct(ngram) ==
  /\ pf.op \in {"config", "written"}
  /\ pf' = [pf EXCEPT !.ngram = ngram, !.index = ngram_to_index(ngram, pf.config)]
  /\ UNCHANGED <<fs, hbvars, trivars, shvars, mgvars>>

SlotNext ==
  \/ SlotWriteAct
  \/ \E ngram \in NGrams(1) \cup NGrams(2) :
       Len(ngram) = pf.config.ngram_size /\ NgramIndexAct(ngram)

SpecSlots == SlotInit /\ [][SlotNext]_vars

\* the effective character set as a set, and its size B
EffectiveSet(cfg) == Range(effective_character_set(cfg))

\* C14: with B the size of the effective character set as a set, the writer
\* emits B^ngram_size posting slots, the slot function is one-to-one from the
\* n-grams over the set onto 0 .. B^ngram_size - 1, and an n-gram with a
\* character outside the set has slot -1.
C14_SlotCountAndEncoding ==
  (pf.op = "written" \/ (pf.op = "config" /\ pf.ngram # <<>>)) =>
    LET cfg == pf.config
        slots == Pow(Cardinality(EffectiveSet(cfg)), cfg.ngram_size)
        inside(g) == Range(g) \subseteq EffectiveSet(cfg)
    IN /\ pf.op = "written" => pf.slots = slots
       /\ pf.ngram # <<>> =>
            IF inside(pf.ngram) THEN pf.index \in 0..(slots - 1) ELSE pf.index = -1
       /\ \A g, h \in NGrams(cfg.ngram_size) :
            (inside(g) /\ inside(h) /\ ngram_to_index(g, cfg) = ngram_to_index(h, cfg))
              => g = h

\* the same, for configs whose effective character set repeats no character
C14_HoldsWithoutRepeats ==
  (pf.op \in {"config", "written"}
     /\ Cardinality(EffectiveSet(pf.config)) = Len(effective_character_set(pf.config)))
    => C14_SlotCountAndEncoding

----------------------------------------------------------------------------
(* make_writer and make_reader: the capability asked for *)

\* the protocols of core.py
Protocols ==
  {"IndexReader", "IndexWriter", "SupportsKeyLookup", "SupportsTextSearch",
   "SupportsKeyAddition", "SupportsTextAddition"}

\* a config that supports whatever is asked for
supports_protocol_Any(cfg, protocol) == TRUE

\* HashBucketConfig.supports_protocol / TrigramConfig.supports_protocol
supports_protocol(cfg, protocol) ==
  IF cfg.type = "hashbucket"
    THEN protocol \in {"SupportsKeyAddition", "SupportsKeyLookup"}
    ELSE protocol \in {"SupportsTextAddition", "SupportsTextSearch"}

NoObject == [class |-> "none"]

\* core.make_writer: [err, result]
make_writer(cfg, expected_protocol) ==
  IF ~supports_protocol(cfg, expected_protocol)
    THEN [err |-> "TypeError", result |-> NoObject]
    ELSE [err |-> "none",
          result |-> [class |-> IF cfg.type = "hashbucket" THEN "HashBucketWriter"
                                ELSE "TrigramWriter",
                      config |-> cfg]]

\* core.make_reader: [err, result]
make_reader(file, expected_protocol) ==
  LET config == ConfigFromBagz(file)
  IN IF ~supports_protocol(config, expected_protocol)
       THEN [err |-> "TypeError", result |-> NoObject]
       ELSE [err |-> "none",
             result |-> [class |-> IF config.type = "hashbucket" THEN "HashBucketReader"
                                   ELSE "TrigramReader",
                         config |-> config]]

ProtocolConfigs == HBConfigs \cup TriConfigs

\* an index of the config has been written to idx1
ProtocolInit ==
  /\ \E c \in ProtocolConfigs :
       /\ pf = [op |-> "config", config |-> c]
       /\ fs = [p \in Paths |->
                  IF p = "idx1" THEN BagFile(WriterEntries(c, MakeWriter(c).data))
                  ELSE NoFile]
  /\ HBIdle /\ TriIdle /\ ShardIdle /\ MergeIdle

\* core.make_writer(config, protocol)
MakeWriterCallAct(protocol) ==
  /\ pf.op = "config"
  /\ LET r == make_writer(pf.config, protocol)
     IN pf' = [op |-> "make_writer", config |-> pf.config, protocol |-> protocol,
               err |-> r.err, result |-> r.result]
  /\ UNCHANGED <<fs, hbvars, trivars, shvars, mgvars>>

\* core.make_reader("idx1", protocol)
MakeReaderCallAct(protocol) ==
  /\ pf.op = "config"
  /\ LET r == make_reader(fs["idx1"], protocol)
     IN pf' = [op |-> "make_reader", config |-> pf.config, protocol |-> protocol,
               err |-> r.err, result |-> r.result]
  /\ UNCHANGED <<fs, hbvars, trivars, shvars, mgvars>>

ProtocolNext ==
  \/ \E protocol \in Protocols : MakeWriterCallAct(protocol)
  \/ \E protocol \in Protocols : MakeReaderCallAct(protocol)

SpecProtocol == ProtocolInit /\ [][ProtocolNext]_vars

\* the capabilities of a family
Capabilities(type) ==
  IF type = "hashbucket" THEN {"SupportsKeyAddition", "SupportsKeyLookup"}
  ELSE {"SupportsTextAddition", "SupportsTextSearch"}

\* C15: make_writer and make_reader raise an error and return nothing when
\* the config does not support the protocol asked for, and only then: a
\* HashBucket config supports exactly key addition and key lookup, a trigram
\* config exactly text addition and text search.
C15_UnsupportedProtocolFails ==
  pf.op \in {"make_writer", "make_reader"} =>
    IF pf.protocol \in Capabilities(pf.config.type)
      THEN pf.err = "none" /\ pf.result # NoObject
      ELSE pf.err = "TypeError" /\ pf.result = NoObject

\* make_reader on a HashBucket index was asked for text search and raised
C15_Witness ==
  /\ pf.op = "make_reader"
  /\ pf.config.type = "hashbucket"
  /\ pf.protocol = "SupportsTextSearch"
  /\ pf.err = "TypeError"

----------------------------------------------------------------------------
(* The config registry *)

\* what the abstract stub Config._get_type returns
PyNone == "<None>"

\* Config._registry once the package is imported: KeyConfig is registered
\* under the value of its stub _get_type, because __abstractmethods__ is not
\* set yet when __init_subclass__ runs
ImportedRegistry ==
  [t \in {PyNone, "hashbucket", "trigram"} |->
     IF t = PyNone THEN "KeyConfig"
     ELSE IF t = "hashbucket" THEN "HashBucketConfig" ELSE "TrigramConfig"]

\* a registration that replaces the class of a registered tag
init_subclass_Overwrite(registry, cls, type_name) ==
  [err |-> "none",
   registry |-> [t \in DOMAIN registry \cup {type_name} |->
                   IF t = type_name THEN cls ELSE registry[t]]]

\* Config.__init_subclass__ for class cls whose _get_type() returns
\* type_name: [err, registry]
init_subclass(registry, cls, type_name) ==
  IF type_name \in DOMAIN registry
    THEN [err |-> "ValueError", registry |-> registry]
    ELSE [err |-> "none",
          registry |-> [t \in DOMAIN registry \cup {type_name} |->
                          IF t = type_name THEN cls ELSE registry[t]]]

\* Config.get_config_class: [err, class]
get_config_class(registry, config_type) ==
  IF config_type \notin DOMAIN registry
    THEN [err |-> "ValueError", class |-> "none"]
    ELSE [err |-> "none", class |-> registry[config_type]]

\* core.config_from_json against a registry: [err, class, config]
config_from_json_in(registry, entry) ==
  IF "type" \notin DOMAIN entry.obj
    THEN [err |-> "ValueError", class |-> "none", config |-> NoObject]
    ELSE LET c == get_config_class(registry, entry.obj.type)
         IN IF c.err # "none"
              THEN [err |-> c.err, class |-> "none", config |-> NoObject]
              ELSE [err |-> "none", class |-> c.class,
                    config |-> IF c.class = "HashBucketConfig" THEN HBFromJson(entry.obj)
                               ELSE IF c.class = "TrigramConfig" THEN TriFromJson(entry.obj)
                               ELSE [class |-> c.class]]

\* the classes a program defines after the import, and what their _get_type
\* returns
UserClasses == {"A", "B"}
UserTypes == {"hashbucket", "x", "y", PyNone}

\* a JSON object without its "type" member
WithoutType(entry) ==
  [tag |-> "json", obj |-> [f \in DOMAIN entry.obj \ {"type"} |-> entry.obj[f]]]

\* descriptors to load: written by a config, the same without the type
\* member, and with the type tags "x", "y", "z"
RegistryDescriptors ==
  LET written == {to_json(c) : c \in ProtocolConfigs}
  IN written \cup {WithoutType(e) : e \in written}
       \cup {[tag |-> "json", obj |-> [type |-> t]] : t \in {"x", "y", "z"}}

NoRegistryCall == [call |-> "none"]

RegistryInit ==
  /\ pf = [op |-> "registry", registry |-> ImportedRegistry,
           classes |-> {[name |-> ImportedRegistry[t], type_name |-> t] :
                          t \in DOMAIN ImportedRegistry},
           last |-> NoRegistryCall]
  /\ LibraryIdle

\* class cls(Config) with _get_type returning type_name: the class statement
\* raises when the registration does
DefineConfigClassAct(cls, type_name) ==
  /\ pf.op = "registry"
  /\ LET r == init_subclass(pf.registry, cls, type_name)
     IN pf' = [op |-> "registry", registry |-> r.registry,
               classes |-> IF r.err = "none"
                             THEN pf.classes \cup {[name |-> cls, type_name |-> type_name]}
                             ELSE pf.classes,
               last |-> [call |-> "define", cls |-> cls, type_name |-> type_name,
                         err |-> r.err, before |-> pf.registry]]
  /\ UNCHANGED <<fs, hbvars, trivars, shvars, mgvars>>

\* core.config_from_json(descriptor)
LoadDescriptorAct(entry) ==
  /\ pf.op = "registry"
  /\ LET r == config_from_json_in(pf.registry, entry)
     IN pf' = [pf EXCEPT !.last = [call |-> "load", entry |-> entry, err |-> r.err,
                                   class |-> r.class, config |-> r.config]]
  /\ UNCHANGED <<fs, hbvars, trivars, shvars, mgvars>>

RegistryNext ==
  \/ \E cls \in UserClasses, t \in UserTypes : DefineConfigClassAct(cls, t)
  \/ \E e \in RegistryDescriptors : LoadDescriptorAct(e)

SpecRegistry == RegistryInit /\ [][RegistryNext]_vars

\* C16: the registry holds at most one config class per type tag: defining
\* a second class under a registered tag raises and leaves the registry as it
\* was, and loading a descriptor whose type tag is missing or unregistered
\* raises and yields no config.
C16_RegistryOneClassPerTag ==
  pf.op = "registry" =>
    /\ \A c \in pf.classes :
         c.type_name \in DOMAIN pf.registry /\ pf.registry[c.type_name] = c.name
    /\ (pf.last.call = "define" /\ pf.last.type_name \in DOMAIN pf.last.before) =>
         pf.last.err = "ValueError" /\ pf.registry = pf.last.before
    /\ (pf.last.call = "load"
          /\ ("type" \in DOMAIN pf.last.entry.obj =>
                pf.last.entry.obj.type \notin DOMAIN pf.registry)) =>
         pf.last.err = "ValueError" /\ pf.last.config = NoObject

\* class A is registered under "x" and defining class B under "x" has raised
C16_Witness ==
  /\ pf.op = "registry"
  /\ pf.last.call = "define"
  /\ pf.last.cls = "B"
  /\ pf.last.type_name = "x"
  /\ pf.last.err = "ValueError"
  /\ pf.registry["x"] = "A"

\* a descriptor without a type member has been refused
C16_WitnessMissingType ==
  /\ pf.op = "registry"
  /\ pf.last.call = "load"
  /\ "type" \notin DOMAIN pf.last.entry.obj
  /\ pf.last.err = "ValueError"

----------------------------------------------------------------------------
(* Field patterns: strings are sequences of characters *)

MaxComponents == 3
MaxPathLen == 3

\* str.strip(): the string without leading and trailing spaces
RECURSIVE Strip(_)
Strip(s) ==
  IF s = <<>> THEN s
  ELSE IF Head(s) = " " THEN Strip(Tail(s))
  ELSE IF s[Len(s)] = " " THEN Strip(SubSeq(s, 1, Len(s) - 1))
  ELSE s

\* str.split(sep): the pieces between the separators, empty ones included
RECURSIVE SplitFrom(_, _, _, _)
SplitFrom(s, sep, i, current) ==
  IF i > Len(s) THEN <<current>>
  ELSE IF s[i] = sep THEN <<current>> \o SplitFrom(s, sep, i + 1, <<>>)
  ELSE SplitFrom(s, sep, i + 1, Append(current, s[i]))

Split(s, sep) == SplitFrom(s, sep, 1, <<>>)

\* _parse_field_set: the names of '{a,b,c}', or the string itself
parse_field_set(field_str) ==
  IF Len(field_str) >= 2 /\ field_str[1] = "{" /\ field_str[Len(field_str)] = "}"
    THEN LET parts == Split(SubSeq(field_str, 2, Len(field_str) - 1), ",")
         IN [k \in DOMAIN parts |-> Strip(parts[k])]
    ELSE <<field_str>>

\* the first loop of parse_pattern: the components between the dots outside
\* braces
RECURSIVE ParseComponents(_, _, _, _)
ParseComponents(pattern_str, i, current_component, brace_level) ==
  IF i > Len(pattern_str)
    THEN IF current_component # <<>> THEN <<current_component>> ELSE <<>>
  ELSE LET char == pattern_str[i]
       IN IF char = "{"
            THEN ParseComponents(pattern_str, i + 1, Append(current_component, char),
                                 brace_level + 1)
          ELSE IF char = "}"
            THEN ParseComponents(pattern_str, i + 1, Append(current_component, char),
                                 brace_level - 1)
          ELSE IF char = "." /\ brace_level = 0
            THEN <<current_component>> \o ParseComponents(pattern_str, i + 1, <<>>, 0)
          ELSE ParseComponents(pattern_str, i + 1, Append(current_component, char),
                               brace_level)

\* the second loop of parse_pattern: the matcher of a component
MatcherOf(component) ==
  IF component = <<"*", "*">> THEN [kind |-> "DoubleWildcardMatcher"]
  ELSE IF component = <<"*">> THEN [kind |-> "WildcardMatcher"]
  ELSE IF component # <<>> /\ Head(component) = "{" /\ component[Len(component)] = "}"
    THEN [kind |-> "SetMatcher", field_names |-> parse_field_set(component)]
  ELSE [kind |-> "ExactMatcher", name |-> component]

\* parse_pattern: the matchers of Pattern
parse_pattern(pattern_str) ==
  LET components == ParseComponents(pattern_str, 1, <<>>, 0)
  IN [k \in DOMAIN components |-> MatcherOf(components[k])]

RECURSIVE PatternMatch(_, _, _)
RECURSIVE DoubleWildcardMatcherMatch(_, _, _)

\* ExactMatcher.match
ExactMatcherMatch(field_path, matchers, pattern_index) ==
  IF field_path = <<>> THEN FALSE
  ELSE IF matchers[pattern_index + 1].name = Head(field_path)
    THEN PatternMatch(Tail(field_path), matchers, pattern_index + 1)
  ELSE FALSE

\* WildcardMatcher.match
WildcardMatcherMatch(field_path, matchers, pattern_index) ==
  IF field_path = <<>> THEN FALSE
  ELSE PatternMatch(Tail(field_path), matchers, pattern_index + 1)

\* a double wildcard that takes at least one component
DoubleWildcardMatcherMatch_OneOrMore(field_path, matchers, pattern_index) ==
  /\ field_path # <<>>
  /\ \E k \in 1..Len(field_path) :
       PatternMatch(SubSeq(field_path, k + 1, Len(field_path)), matchers,
                    pattern_index + 1)

\* DoubleWildcardMatcher.match
DoubleWildcardMatcherMatch(field_path, matchers, pattern_index) ==
  IF PatternMatch(field_path, matchers, pattern_index + 1) THEN TRUE
  ELSE IF field_path # <<>>
    THEN DoubleWildcardMatcherMatch(Tail(field_path), matchers, pattern_index)
  ELSE FALSE

\* SetMatcher.match
SetMatcherMatch(field_path, matchers, pattern_index) ==
  IF field_path = <<>> THEN FALSE
  ELSE IF \E k \in DOMAIN matchers[pattern_index + 1].field_names :
            matchers[pattern_index + 1].field_names[k] = Head(field_path)
    THEN PatternMatch(Tail(field_path), matchers, pattern_index + 1)
  ELSE FALSE

\* Pattern.match; pattern_index counts from 0 as in the code
PatternMatch(field_path, matchers, pattern_index) ==
  IF pattern_index >= Len(matchers) THEN field_path = <<>>
  ELSE IF field_path = <<>>
    THEN \A k \in (pattern_index + 1)..Len(matchers) :
           matchers[k].kind = "DoubleWildcardMatcher"
  ELSE LET kind == matchers[pattern_index + 1].kind
       IN IF kind = "ExactMatcher"
            THEN ExactMatcherMatch(field_path, matchers, pattern_index)
          ELSE IF kind = "WildcardMatcher"
            THEN WildcardMatcherMatch(field_path, matchers, pattern_index)
          ELSE IF kind = "DoubleWildcardMatcher"
            THEN DoubleWildcardMatcherMatch(field_path, matchers, pattern_index)
          ELSE SetMatcherMatch(field_path, matchers, pattern_index)

\* _matches_pattern
matches_pattern(field_path, matchers) == PatternMatch(field_path, matchers, 0)

\* the components a pattern string is put together from
PatternComponents ==
  {<<"a">>, <<"b">>, <<"*">>, <<"*", "*">>, <<"{", "a", ",", "b", "}">>,
   <<"{", "a", ",", " ", "c", "}">>, <<>>, <<"{", "a">>}

RECURSIVE JoinDots(_)
JoinDots(components) ==
  IF components = <<>> THEN <<>>
  ELSE IF Len(components) = 1 THEN components[1]
  ELSE components[1] \o <<".">> \o JoinDots(Tail(components))

SeqsUpTo(S, n) == UNION {[1..k -> S] : k \in 0..n}

PatternStrings == {JoinDots(cs) : cs \in SeqsUpTo(PatternComponents, MaxComponents)}

FieldNames == {<<"a">>, <<"b">>, <<"c">>}

FieldPaths == SeqsUpTo(FieldNames, MaxPathLen)

PatternInit ==
  /\ \E ps \in PatternStrings, p \in FieldPaths :
       pf = [op |-> "pattern", pattern_str |-> ps, field_path |-> p]
  /\ LibraryIdle

\* pattern = parse_pattern(pattern_str)
ParsePatternAct ==
  /\ pf.op = "pattern"
  /\ pf' = [op |-> "parsed", pattern_str |-> pf.pattern_str, field_path |-> pf.field_path,
            matchers |-> parse_pattern(pf.pattern_str)]
  /\ UNCHANGED <<fs, hbvars, trivars, shvars, mgvars>>

\* _matches_pattern(field_path, pattern)
MatchesPatternAct ==
  /\ pf.op = "parsed"
  /\ pf' = [op |-> "matched", pattern_str |-> pf.pattern_str, field_path |-> pf.field_path,
            matchers |-> pf.matchers,
            result |-> matches_pattern(pf.field_path, pf.matchers)]
  /\ UNCHANGED <<fs, hbvars, trivars, shvars, mgvars>>

PatternNext == ParsePatternAct \/ MatchesPatternAct

SpecPattern == PatternInit /\ [][PatternNext]_vars

\* matcher m takes the components segment of a path
Takes(m, segment) ==
  IF m.kind = "DoubleWildcardMatcher" THEN TRUE
  ELSE /\ Len(segment) = 1
       /\ IF m.kind = "ExactMatcher" THEN segment[1] = m.name
          ELSE IF m.kind = "SetMatcher"
            THEN \E k \in DOMAIN m.field_names : m.field_names[k] = segment[1]
          ELSE TRUE

\* the path can be cut into one segment per matcher, in order, each taken by
\* its matcher
Consumable(matchers, field_path) ==
  \E cut \in [0..Len(matchers) -> 0..Len(field_path)] :
    /\ cut[0] = 0
    /\ cut[Len(matchers)] = Len(field_path)
    /\ \A k \in 1..Len(matchers) :
         /\ cut[k - 1] <= cut[k]
         /\ Takes(matchers[k], SubSeq(field_path, cut[k - 1] + 1, cut[k]))

\* C17: the matcher of a parsed pattern accepts a path exactly when the path
\* is consumed completely from left to right, an Exact matcher taking one
\* component equal to its name, a Set matcher one component among its names,
\* a Wildcard one component, a DoubleWildcard zero or more, no matcher and no
\* component left over.
C17_MatchIffConsumable ==
  pf.op = "matched" => (pf.result <=> Consumable(pf.matchers, pf.field_path))

\* "**.{a, c}.*" has accepted (b, c, a): the double wildcard took b, the set
\* took c after its name was stripped, the wildcard took a
C17_Witness ==
  /\ pf.op = "matched"
  /\ pf.pattern_str = <<"*", "*", ".", "{", "a", ",", " ", "c", "}", ".", "*">>
  /\ pf.field_path = <<<<"b">>, <<"c">>, <<"a">>>>
  /\ pf.result

----------------------------------------------------------------------------
(* Schemas and the selected field paths *)

MaxKeyPatterns == 2
MaxExcludePatterns == 2

\* a field descriptor; message_type names the nested message of a
\* TYPE_MESSAGE field
Field(name, type, message_type) ==
  [name |-> name, type |-> type, message_type |-> message_type]

\* the fields a record type and its nested message are built from, after
\* TestMessage / SubMessage with one-letter names
RootFields ==
  <<Field(<<"a">>, "string", "none"), Field(<<"b">>, "int64", "none"),
    Field(<<"c">>, "message", "SubMessage")>>

SubFields ==
  <<Field(<<"a">>, "string", "none"), Field(<<"b">>, "int32", "none"),
    Field(<<"c">>, "int64", "none")>>

\* the fields of a list whose names are in a set, in their order
RECURSIVE FieldsNamed(_, _)
FieldsNamed(fields, names) ==
  IF fields = <<>> THEN <<>>
  ELSE (IF Head(fields).name \in names THEN <<Head(fields)>> ELSE <<>>)
         \o FieldsNamed(Tail(fields), names)

\* a record type: the descriptors of the root message and of SubMessage
Schema(rootNames, subNames) ==
  [root |-> "TestMessage",
   messages |-> [mn \in {"TestMessage", "SubMessage"} |->
                   IF mn = "TestMessage" THEN FieldsNamed(RootFields, rootNames)
                   ELSE FieldsNamed(SubFields, subNames)]]

Schemas == {Schema(r, u) : r \in SUBSET FieldNames, u \in SUBSET FieldNames}

\* a generator of leaves only, a message without fields counting as a leaf
RECURSIVE YieldFrom_Leaves(_, _, _)
YieldFrom_Leaves(schema, msg, k) ==
  LET fields == schema.messages[msg]
  IN IF k > Len(fields) THEN <<>>
     ELSE LET field_desc == fields[k]
              nested == IF field_desc.type = "message"
                          THEN YieldFrom_Leaves(schema, field_desc.message_type, 1)
                          ELSE <<>>
          IN (IF nested = <<>>
                THEN <<[path |-> <<field_desc.name>>, field |-> field_desc]>>
                ELSE [j \in DOMAIN nested |->
                        [path |-> <<field_desc.name>> \o nested[j].path,
                         field |-> nested[j].field]])
               \o YieldFrom_Leaves(schema, msg, k + 1)

\* _yield_field_paths over the fields of message msg from position k: the
\* sequence of (path, field descriptor)
RECURSIVE YieldFrom(_, _, _)
YieldFrom(schema, msg, k) ==
  LET fields == schema.messages[msg]
  IN IF k > Len(fields) THEN <<>>
     ELSE LET field_desc == fields[k]
              nested == IF field_desc.type = "message"
                          THEN YieldFrom(schema, field_desc.message_type, 1)
                          ELSE <<>>
          IN <<[path |-> <<field_desc.name>>, field |-> field_desc]>>
               \o [j \in DOMAIN nested |->
                     [path |-> <<field_desc.name>> \o nested[j].path,
                      field |-> nested[j].field]]
               \o YieldFrom(schema, msg, k + 1)

\* _yield_field_paths(msg_class.DESCRIPTOR)
yield_field_paths(schema) == YieldFrom(schema, schema.root, 1)

\* expand_field_pattern
expand_field_pattern(schema, pattern_path) ==
  LET pattern == parse_pattern(pattern_path)
      yielded == yield_field_paths(schema)
  IN {yielded[k].path : k \in {j \in DOMAIN yielded :
                                 matches_pattern(yielded[j].path, pattern)}}

\* the union of the expansions of a list of patterns
RECURSIVE ExpandAll(_, _)
ExpandAll(schema, patterns) ==
  IF patterns = <<>> THEN {}
  ELSE expand_field_pattern(schema, Head(patterns)) \cup ExpandAll(schema, Tail(patterns))

\* a selection that leaves the exclude patterns out
generate_matching_field_paths_KeysOnly(schema, key_field_patterns, exclude_field_patterns) ==
  ExpandAll(schema, key_field_patterns)

\* _generate_matching_field_paths: update with every key pattern, then
\* difference_update with every exclude pattern
generate_matching_field_paths(schema, key_field_patterns, exclude_field_patterns) ==
  ExpandAll(schema, key_field_patterns) \ ExpandAll(schema, exclude_field_patterns)

\* the patterns of the selections: a, *, **, c.*, **.a, {a,b}, c.{a, c}
SelectPatterns ==
  {<<"a">>, <<"*">>, <<"*", "*">>, <<"c", ".", "*">>, <<"*", "*", ".", "a">>,
   <<"{", "a", ",", "b", "}">>,
   <<"c", ".", "{", "a", ",", " ", "c", "}">>}

SelectInit ==
  /\ \E sch \in Schemas, kp \in SeqsUpTo(SelectPatterns, MaxKeyPatterns),
        ep \in SeqsUpTo(SelectPatterns, MaxExcludePatterns) :
       pf = [op |-> "select", schema |-> sch, key_field_patterns |-> kp,
             exclude_field_patterns |-> ep]
  /\ LibraryIdle

\* _generate_matching_field_paths(record_type_class, key patterns, exclude
\* patterns)
GenerateMatchingAct ==
  /\ pf.op = "select"
  /\ pf' = [op |-> "selected", schema |-> pf.schema,
            key_field_patterns |-> pf.key_field_patterns,
            exclude_field_patterns |-> pf.exclude_field_patterns,
            selected |-> generate_matching_field_paths(pf.schema, pf.key_field_patterns,
                                                       pf.exclude_field_patterns)]
  /\ UNCHANGED <<fs, hbvars, trivars, shvars, mgvars>>

SelectNext == GenerateMatchingAct

SpecSelect == SelectInit /\ [][SelectNext]_vars

\* the field of a message with a name, as a set with at most one element
FieldsByName(schema, msg, name) ==
  {schema.messages[msg][k] : k \in {j \in DOMAIN schema.messages[msg] :
                                      schema.messages[msg][j].name = name}}

\* the path names a field of the schema: each component is a field of the
\* message reached so far, and only a message field is descended into
RECURSIVE IsSchemaPath(_, _, _)
IsSchemaPath(schema, msg, path) ==
  /\ path # <<>>
  /\ \E f \in FieldsByName(schema, msg, Head(path)) :
       \/ Len(path) = 1
       \/ f.type = "message" /\ IsSchemaPath(schema, f.message_type, Tail(path))

SchemaPaths(schema) == {p \in FieldPaths : IsSchemaPath(schema, schema.root, p)}

\* the path is consumed by one of the patterns
MatchesSome(patterns, path) ==
  \E k \in DOMAIN patterns : Consumable(parse_pattern(patterns[k]), path)

\* C18: the selected paths are the schema paths, leaf or interior, matched
\* by some key pattern and by no exclude pattern.
C18_SelectedIsKeysMinusExcludes ==
  pf.op = "selected" =>
    pf.selected = {p \in SchemaPaths(pf.schema) :
                     /\ MatchesSome(pf.key_field_patterns, p)
                     /\ ~MatchesSome(pf.exclude_field_patterns, p)}

\* keys ** and a, excludes c.* and **.a, on the full schema: the interior
\* path (c) and the leaf (b) are selected, (a) and the paths under c are not
C18_Witness ==
  /\ pf.op = "selected"
  /\ pf.schema = Schema(FieldNames, FieldNames)
  /\ pf.key_field_patterns = <<<<"*", "*">>, <<"a">>>>
  /\ pf.exclude_field_patterns = <<<<"c", ".", "*">>, <<"*", "*", ".", "a">>>>
  /\ pf.selected = {<<<<"b">>>>, <<<<"c">>>>}

----------------------------------------------------------------------------
(* Expansion of a pattern while the record type grows *)

\* the names of the fields of a message
NamesOf(schema, msg) == {schema.messages[msg][k].name : k \in DOMAIN schema.messages[msg]}

\* the record type with one more field in message msg
AddField(schema, msg, name) ==
  IF msg = "TestMessage"
    THEN Schema(NamesOf(schema, "TestMessage") \cup {name}, NamesOf(schema, "SubMessage"))
    ELSE Schema(NamesOf(schema, "TestMessage"), NamesOf(schema, "SubMessage") \cup {name})

GrowInit ==
  /\ \E sch \in Schemas, ps \in PatternStrings :
       pf = [op |-> "schema", schema |-> sch, pattern_path |-> ps,
             has_previous |-> FALSE, previous |-> {}]
  /\ LibraryIdle

\* expand_field_pattern(msg_class, pattern_path)
ExpandFieldPatternAct ==
  /\ pf.op = "schema"
  /\ pf' = [op |-> "expanded", schema |-> pf.schema, pattern_path |-> pf.pattern_path,
            has_previous |-> pf.has_previous, previous |-> pf.previous,
            expansion |-> expand_field_pattern(pf.schema, pf.pattern_path)]
  /\ UNCHANGED <<fs, hbvars, trivars, shvars, mgvars>>

\* the .proto file gets a new field in message msg; the expansion so far is
\* kept for comparison
AddFieldAct(msg, name) ==
  /\ pf.op = "expanded"
  /\ name \notin NamesOf(pf.schema, msg)
  /\ pf' = [op |-> "schema", schema |-> AddField(pf.schema, msg, name),
            pattern_path |-> pf.pattern_path,
            has_previous |-> TRUE, previous |-> pf.expansion]
  /\ UNCHANGED <<fs, hbvars, trivars, shvars, mgvars>>

GrowNext ==
  \/ ExpandFieldPatternAct
  \/ \E msg \in {"TestMessage", "SubMessage"}, name \in FieldNames : AddFieldAct(msg, name)

SpecGrow == GrowInit /\ [][GrowNext]_vars

\* C19: after a field is added to the root message or to a nested message,
\* the expansion of a pattern contains every path it contained before.
C19_ExpansionMonotone ==
  (pf.op = "expanded" /\ pf.has_previous) => pf.previous \subseteq pf.expansion

\* "**" on a record type that got its message field c: the old path (a) is
\* still there, next to the new interior path (c) and the nested (c, a)
C19_Witness ==
  /\ pf.op = "expanded"
  /\ pf.has_previous
  /\ pf.pattern_path = <<"*", "*">>
  /\ pf.previous = {<<<<"a">>>>}
  /\ {<<<<"a">>>>, <<<<"c">>>>, <<<<"c">>, <<"a">>>>} \subseteq pf.expansion

----------------------------------------------------------------------------
(* The key type of the selected paths *)

MaxSelected == 3
MaxKeyPathLen == 2

\* the inner loop of _get_key_proto_name: the components of one path, looked
\* up in current_msg_class; [err, type] where type is current_field_type
RECURSIVE WalkPath(_, _, _, _)
WalkPath(schema, path_tuple, current_msg_class, current_field_type) ==
  IF path_tuple = <<>> THEN [err |-> "none", type |-> current_field_type]
  ELSE LET found == FieldsByName(schema, current_msg_class, Head(path_tuple))
       IN IF found = {} THEN [err |-> "ValueError", type |-> "none"]
          ELSE LET field_desc == CHOOSE f \in found : TRUE
               IN WalkPath(schema, Tail(path_tuple),
                           IF field_desc.type = "message" THEN field_desc.message_type
                           ELSE current_msg_class,
                           field_desc.type)

\* the outer loop of _get_key_proto_name over the paths in iteration order:
\* [err, type] where type is first_field_type ("none" for None)
RECURSIVE FirstFieldType(_, _, _)
FirstFieldType(schema, paths, first_field_type) ==
  IF paths = <<>> THEN [err |-> "none", type |-> first_field_type]
  ELSE LET w == WalkPath(schema, Head(paths), schema.root, "none")
       IN IF w.err # "none" THEN w
          ELSE IF first_field_type = "none"
            THEN FirstFieldType(schema, Tail(paths), w.type)
          ELSE IF first_field_type # w.type
            THEN [err |-> "TypeError", type |-> "none"]
          ELSE FirstFieldType(schema, Tail(paths), first_field_type)

\* _get_key_proto_name on the paths in the order the set is iterated:
\* [err, key_proto_name]
get_key_proto_name(paths, schema) ==
  LET t == FirstFieldType(schema, paths, "none")
  IN IF t.err # "none" THEN [err |-> t.err, key_proto_name |-> "none"]
     ELSE IF t.type = "string"
       THEN [err |-> "none", key_proto_name |-> "bagz_index.keys.StringKey"]
     ELSE IF t.type = "int64"
       THEN [err |-> "none", key_proto_name |-> "bagz_index.keys.Int64Key"]
     ELSE [err |-> "TypeError", key_proto_name |-> "none"]

\* record types with and without the scalar fields and the nested message
KeyTypeSchemas ==
  {Schema(r, u) : r \in {FieldNames, {<<"a">>, <<"c">>}, {<<"b">>, <<"c">>}, {<<"a">>, <<"b">>}},
                  u \in {FieldNames, {<<"a">>}, {<<"c">>}, {}}}

KeyPaths == SeqsUpTo(FieldNames, MaxKeyPathLen)

KeyTypeInit ==
  /\ \E sch \in KeyTypeSchemas, sel \in SUBSET KeyPaths :
       /\ Cardinality(sel) <= MaxSelected
       /\ pf = [op |-> "paths", schema |-> sch, selected |-> sel]
  /\ LibraryIdle

\* _get_key_proto_name(all_expanded_key_fields, record_type_class); the set
\* is iterated in some order
GetKeyProtoNameAct ==
  /\ pf.op = "paths"
  /\ \E order \in [1..Cardinality(pf.selected) -> pf.selected] :
       /\ Range(order) = pf.selected
       /\ LET r == get_key_proto_name(order, pf.schema)
          IN pf' = [op |-> "typed", schema |-> pf.schema, selected |-> pf.selected,
                    err |-> r.err, key_proto_name |-> r.key_proto_name]
  /\ UNCHANGED <<fs, hbvars, trivars, shvars, mgvars>>

KeyTypeNext == GetKeyProtoNameAct

SpecKeyType == KeyTypeInit /\ [][KeyTypeNext]_vars

\* the type of the field a schema path names
RECURSIVE TypeAt(_, _, _)
TypeAt(schema, msg, path) ==
  LET f == CHOOSE g \in FieldsByName(schema, msg, Head(path)) : TRUE
  IN IF Len(path) = 1 THEN f.type ELSE TypeAt(schema, f.message_type, Tail(path))

\* the set is not empty and every path names a field of the given type
AllEndIn(schema, selected, type) ==
  /\ selected # {}
  /\ \A p \in selected :
       IsSchemaPath(schema, schema.root, p) /\ TypeAt(schema, schema.root, p) = type

\* C20: key-type inference returns StringKey exactly when every selected
\* path ends in a string field, Int64Key exactly when every selected path
\* ends in an int64 field, and raises in every other case (mixed types, an
\* unsupported leaf type, no path, a path that names no field).
C20_KeyTypeInference ==
  pf.op = "typed" =>
    /\ (pf.err = "none" /\ pf.key_proto_name = "bagz_index.keys.StringKey")
         <=> AllEndIn(pf.schema, pf.selected, "string")
    /\ (pf.err = "none" /\ pf.key_proto_name = "bagz_index.keys.Int64Key")
         <=> AllEndIn(pf.schema, pf.selected, "int64")
    /\ pf.err # "none"
         <=> ~(AllEndIn(pf.schema, pf.selected, "string")
                 \/ AllEndIn(pf.schema, pf.selected, "int64"))

\* the same statement for selections made of schema paths only, as
\* generate_index passes them
C20_HoldsOnSchemaPaths ==
  (pf.op = "typed" /\ pf.selected \subseteq SchemaPaths(pf.schema)) => C20_KeyTypeInference

\* a path through a scalar field has been given a key type
C20_ScalarDescended ==
  /\ pf.op = "typed"
  /\ pf.selected = {<<<<"a">>, <<"a">>>>}
  /\ pf.schema = Schema(FieldNames, FieldNames)
  /\ pf.key_proto_name = "bagz_index.keys.StringKey"

----------------------------------------------------------------------------
(* Keys of every variant *)

\* values of TupleStringKey
TupleValues == {<<>>, <<<<>>>>, <<<<97>>>>, <<<<98>>>>, <<<<97>>, <<98>>>>, <<<<98>>, <<97>>>>}

TupleKeys ==
  {[variant |-> "bagz_index.keys.TupleStringKey", str |-> <<>>, num |-> 0, tup |-> v] :
     v \in TupleValues}

AnyKeys ==
  KeysOf("bagz_index.keys.StringKey") \cup KeysOf("bagz_index.keys.Int64Key") \cup TupleKeys

AnyKeyBytes == {SerializeToString(k) : k \in AnyKeys}

\* a HashBucket config is chosen; the writers may be handed keys of any
\* variant
VariantInit ==
  /\ fs = [p \in Paths |-> NoFile]
  /\ hcfg \in HBConfigs
  /\ digest \in [AnyKeyBytes -> {0}] \cup {[kb \in AnyKeyBytes |-> Len(kb) % 2]}
  /\ hdata = [w \in {1, 2} |-> <<>>]
  /\ hlog = <<>>
  /\ hres = [path |-> "", key |-> <<>>, result |-> NotFound]
  /\ TriIdle
  /\ ShardIdle
  /\ MergeIdle
  /\ CallIdle

VariantNext ==
  \/ \E w \in {1, 2}, key \in AnyKeys, ids \in {<<1>>, <<2>>} : HBAddAct(w, key, ids)
  \/ \E w \in {1, 2} : HBWriteAct(w)

SpecVariant == VariantInit /\ [][VariantNext]_vars

\* the variants of the keys added to writer w
VariantsAdded(w) == {hlog[i].key.variant : i \in {j \in DOMAIN hlog : hlog[j].w = w}}

\* C21: a HashBucket writer takes keys of the variant of its config only, so
\* no index holds keys of two variants.
C21_SingleVariantPerIndex ==
  \A w \in {1, 2} :
    /\ VariantsAdded(w) \subseteq {hcfg.key_proto_name}
    /\ fs[WriterPath[w]].exists => Cardinality(VariantsAdded(w)) <= 1

\* an index has been written whose writer took keys of two variants
C21_MixedIndexWritten ==
  \E w \in {1, 2} : fs[WriterPath[w]].exists /\ Cardinality(VariantsAdded(w)) = 2

----------------------------------------------------------------------------
(* Serialization of keys *)

KeysInit ==
  /\ \E k1 \in AnyKeys, k2 \in AnyKeys : pf = [op |-> "keys", k1 |-> k1, k2 |-> k2]
  /\ LibraryIdle

\* k1.SerializeToString(), k2.SerializeToString()
SerializeKeysAct ==
  /\ pf.op = "keys"
  /\ pf' = [op |-> "serialized", k1 |-> pf.k1, k2 |-> pf.k2,
            b1 |-> SerializeToString(pf.k1), b2 |-> SerializeToString(pf.k2)]
  /\ UNCHANGED <<fs, hbvars, trivars, shvars, mgvars>>

\* a fresh writer: add(k1, [1]); add(k2, [2])
AddKeysAct ==
  /\ pf.op = "keys"
  /\ pf' = [op |-> "added", k1 |-> pf.k1, k2 |-> pf.k2,
            data |-> HBAdd(HBAdd(<<>>, pf.k1, <<1>>), pf.k2, <<2>>)]
  /\ UNCHANGED <<fs, hbvars, trivars, shvars, mgvars>>

KeysNext == SerializeKeysAct \/ AddKeysAct

SpecKeys == KeysInit /\ [][KeysNext]_vars

\* C22: two keys serialize to the same bytes exactly when they are equal by
\* variant and value, so a writer keeps one entry per distinct key.
C22_SerializationCollisionFree ==
  /\ pf.op = "serialized" => (pf.b1 = pf.b2 <=> pf.k1 = pf.k2)
  /\ pf.op = "added" => (Len(pf.data) = 1 <=> pf.k1 = pf.k2)

\* the same statement for two keys of one variant other than TupleStringKey
C22_HoldsWithinScalarVariant ==
  (pf.op \in {"serialized", "added"} /\ pf.k1.variant = pf.k2.variant
     /\ pf.k1.variant # "bagz_index.keys.TupleStringKey") => C22_SerializationCollisionFree

----------------------------------------------------------------------------
(* Merging one index *)

\* merge_indices([idx1], merged)
MergeSingleAct ==
  /\ fs["idx1"].exists /\ ~fs["merged"].exists
  /\ fs' = merge_indices(fs, <<"idx1">>, "merged").fs
  /\ UNCHANGED <<hbvars, trivars, shvars, mgvars, pfvars>>

\* one writer is fed and written, then its index is merged alone
SingleNext ==
  \/ /\ hcfg.type = "hashbucket"
     /\ \E key \in KeysOf(hcfg.key_proto_name), ids \in IdSeqs : HBAddAct(1, key, ids)
  \/ /\ hcfg.type = "hashbucket"
     /\ HBWriteAct(1)
  \/ /\ tcfg.type = "trigram"
     /\ \E text \in Texts, rid \in RecordIds : TriAddTextAct(1, text, rid)
  \/ /\ tcfg.type = "trigram"
     /\ TriWriteAct(1)
  \/ MergeSingleAct

SpecSingle == WritersInit /\ [][SingleNext]_vars

\* C23: the merge of a single written index is entry for entry, byte for
\* byte, that index.
C23_SingleMergeByteEqual ==
  fs["merged"].exists => fs["merged"].entries = fs["idx1"].entries

\* the same statement for HashBucket indices and for trigram indices whose
\* character_set is in sorted order without repeats
C23_HoldsForSortedCharacterSet ==
  (tcfg.type = "trigram" => tcfg.character_set = SortedInts(Range(tcfg.character_set)))
    => C23_SingleMergeByteEqual

\* a positional, delta-encoded index with two texts has been merged alone
C23_MergedPositional ==
  /\ fs["merged"].exists
  /\ tcfg.type = "trigram" /\ tcfg.store_positions /\ tcfg.delta_encode_record_ids
  /\ Len(tlog) = 2
  /\ fs["merged"].entries = fs["idx1"].entries

----------------------------------------------------------------------------
(* Merging three indices in two groupings *)

MaxIndexAdds == 1

AssocConfigs == HBConfigs \cup TriConfigs

\* the files of the scenario: three written indices, the two intermediate
\* merges and the two final ones
AssocPaths == {"A", "B", "C", "AB", "BC", "AB_C", "A_BC"}

\* the index a fresh writer of the config writes after the adds
RECURSIVE WriterAddAll(_, _)
WriterAddAll(cfg, recs) ==
  IF recs = <<>> THEN MakeWriter(cfg).data
  ELSE WriterAdd(cfg, WriterAddAll(cfg, SubSeq(recs, 1, Len(recs) - 1)), recs[Len(recs)])

AssocInit ==
  /\ fs = [p \in Paths |-> NoFile]
  /\ \E cfg \in AssocConfigs :
       /\ digest \in (IF cfg.type = "hashbucket"
                        THEN [KeyBytesOf(cfg.key_proto_name) -> HashValues]
                        ELSE {<<>>})
       /\ \E recs \in [{"A", "B", "C"} -> SeqsUpTo(ShardRecords(cfg), MaxIndexAdds)] :
            pf = [op |-> "adds", config |-> cfg, recs |-> recs,
                  files |-> [p \in AssocPaths |-> NoFile]]
  /\ hcfg = NoConfig /\ hdata = <<>> /\ hlog = <<>>
  /\ hres = [path |-> "", key |-> <<>>, result |-> NotFound]
  /\ TriIdle
  /\ ShardIdle
  /\ MergeIdle

\* three writers of the config are fed and written to A, B, C
WriteThreeAct ==
  /\ pf.op = "adds"
  /\ pf' = [pf EXCEPT !.op = "written",
                      !.files = [p \in AssocPaths |->
                                   IF p \in {"A", "B", "C"}
                                     THEN BagFile(WriterEntries(pf.config,
                                                    WriterAddAll(pf.config, pf.recs[p])))
                                     ELSE NoFile]]
  /\ UNCHANGED <<fs, hbvars, trivars, shvars, mgvars>>

\* merge_indices([A, B], AB); merge_indices([AB, C], AB_C)
MergeLeftAct ==
  /\ pf.op = "written"
  /\ LET f1 == merge_indices(pf.files, <<"A", "B">>, "AB").fs
     IN pf' = [pf EXCEPT !.op = "left",
                         !.files = merge_indices(f1, <<"AB", "C">>, "AB_C").fs]
  /\ UNCHANGED <<fs, hbvars, trivars, shvars, mgvars>>

\* merge_indices([B, C], BC); merge_indices([A, BC], A_BC)
MergeRightAct ==
  /\ pf.op = "left"
  /\ LET f1 == merge_indices(pf.files, <<"B", "C">>, "BC").fs
     IN pf' = [pf EXCEPT !.op = "both",
                         !.files = merge_indices(f1, <<"A", "BC">>, "A_BC").fs]
  /\ UNCHANGED <<fs, hbvars, trivars, shvars, mgvars>>

\* the queries of a config: keys of its variant, or query strings
AssocQueries(cfg) ==
  IF cfg.type = "hashbucket" THEN KeysOf(cfg.key_proto_name) ELSE Queries

\* make_reader(path, ...).lookup(q) or .search(q)
QueryIndex(file, q) ==
  LET cfg == ConfigFromBagz(file)
  IN IF cfg.type = "hashbucket" THEN HBLookup(file.entries, q)
     ELSE [found |-> TRUE, ids |-> TriSearch(cfg, file.entries, q)]

\* the same lookup or search on both final indices
QueryBothAct(q) ==
  /\ pf.op = "both"
  /\ pf' = [op |-> "queried", config |-> pf.config, recs |-> pf.recs, files |-> pf.files,
            query |-> q,
            left |-> QueryIndex(pf.files["AB_C"], q),
            right |-> QueryIndex(pf.files["A_BC"], q)]
  /\ UNCHANGED <<fs, hbvars, trivars, shvars, mgvars>>

AssocNext ==
  \/ WriteThreeAct
  \/ MergeLeftAct
  \/ MergeRightAct
  \/ \E q \in AssocQueries(pf.config) : QueryBothAct(q)

SpecAssoc == AssocInit /\ [][AssocNext]_vars

\* C24: merge(merge(A, B), C) and merge(A, merge(B, C)) exist and answer
\* every lookup (HashBucket) and every search (trigram) alike.
C24_MergeAssociative ==
  /\ pf.op = "both" => pf.files["AB_C"].exists /\ pf.files["A_BC"].exists
  /\ pf.op = "queried" => pf.left = pf.right

\* three HashBucket indices hold the same key under ids 1, 2, 1 and both
\* groupings return (1, 2) for it
C24_Witness ==
  /\ pf.op = "queried"
  /\ pf.config.type = "hashbucket"
  /\ \A p \in {"A", "B", "C"} : Len(pf.recs[p]) = 1 /\ pf.recs[p][1].key = pf.query
  /\ pf.recs["A"][1].ids = <<1>> /\ pf.recs["B"][1].ids = <<2>> /\ pf.recs["C"][1].ids = <<1>>
  /\ pf.left = [found |-> TRUE, ids |-> <<1, 2>>]
  /\ pf.right = pf.left

\* three positional trigram indices: "ab" is found in record 1 and record 2
\* by both groupings
C24_WitnessTrigram ==
  /\ pf.op = "queried"
  /\ pf.config.type = "trigram" /\ pf.config.store_positions
  /\ pf.config.delta_encode_record_ids
  /\ pf.query = <<97, 98>>
  /\ pf.left.ids = <<1, 2>>
  /\ pf.right.ids = <<1, 2>>

----------------------------------------------------------------------------
(* The layout of a HashBucket index *)

\* the records of payload entry b (from 1) of a file
BucketRecords(file, b) == ParseBucket(file.entries[b])

\* C25: in every written or merged HashBucket index, with num_buckets the
\* number of entries before the descriptor, each record is in bucket
\* hash(key) mod num_buckets, the keys of a bucket ascend strictly in byte
\* order, and the record ids of a record ascend strictly.
C25_BucketLayout ==
  hcfg.type = "hashbucket" =>
    \A p \in Paths :
      fs[p].exists =>
        LET num_buckets == Len(fs[p].entries) - 1
        IN /\ num_buckets >= 1
           /\ \A b \in 1..num_buckets :
                LET records == BucketRecords(fs[p], b)
                IN /\ \A i \in DOMAIN records :
                        /\ hash_key(records[i].key) % num_buckets = b - 1
                        /\ \A j \in DOMAIN records[i].record_ids :
                             j > 1 => records[i].record_ids[j - 1] < records[i].record_ids[j]
                   /\ \A i \in DOMAIN records :
                        i > 1 => BytesLess(records[i - 1].key, records[i].key)

\* a merged index holds a record with the ids (1, 2) of a key that both
\* inputs hold, one under [1], the other under [2, 1]
C25_Witness ==
  /\ hcfg.type = "hashbucket"
  /\ fs["merged"].exists
  /\ \E b \in 1..(Len(fs["merged"].entries) - 1) :
       LET records == BucketRecords(fs["merged"], b)
       IN \E i \in DOMAIN records : records[i].record_ids = <<1, 2>>
  /\ \E i, j \in DOMAIN hlog :
       /\ hlog[i].w = 1 /\ hlog[j].w = 2
       /\ hlog[i].key = hlog[j].key
       /\ hlog[i].ids # hlog[j].ids

----------------------------------------------------------------------------
(* The posting lists of a trigram index *)

\* posting list i (from 1) of a file, its record ids delta decoded
DecodedPosting(cfg, file, i) ==
  LET pl == ParsePL(file.entries[i])
  IN [record_ids |-> get_record_ids(cfg, pl.record_ids),
      record_offsets |-> pl.record_offsets]

\* the posting list is in canonical form for the mode of the config
CanonicalPosting(cfg, pl) ==
  IF cfg.store_positions
    THEN /\ Len(pl.record_ids) = Len(pl.record_offsets)
         /\ \A k \in 2..Len(pl.record_ids) :
              PairLess(<<pl.record_ids[k - 1], pl.record_offsets[k - 1]>>,
                       <<pl.record_ids[k], pl.record_offsets[k]>>)
    ELSE \A k \in 2..Len(pl.record_ids) : pl.record_ids[k - 1] < pl.record_ids[k]

\* C26: every posting list a trigram writer or the merger emits is, after
\* delta decoding, strictly ascending: (record id, offset) pairs of equal
\* count with positions, record ids without.
C26_PostingListsCanonical ==
  tcfg.type = "trigram" =>
    \A p \in Paths :
      fs[p].exists =>
        \A i \in 1..(Len(fs[p].entries) - 1) :
          CanonicalPosting(tcfg, DecodedPosting(tcfg, fs[p], i))

\* the same statement when no record id is given two texts
C26_HoldsForOneTextPerRecord ==
  (\A i, j \in DOMAIN tlog : (tlog[i].w = tlog[j].w /\ tlog[i].rid = tlog[j].rid) => i = j)
    => C26_PostingListsCanonical

----------------------------------------------------------------------------
(* The shards of a sharded build *)

\* the records added while shard path number j (from 1) was the last of
\* shard_paths; path 1 is appended by __enter__, whose writer is dropped
ShardSegment(j) ==
  SubSeq(blog, (j - 2) * builder.shard_limit + 1,
         IF (j - 1) * builder.shard_limit <= Len(blog)
           THEN (j - 1) * builder.shard_limit ELSE Len(blog))

\* the index one writer of the config writes from a list of records
IndexOf(cfg, recs) == WriterEntries(cfg, WriterAddAll(cfg, recs))

\* C27: the count of records since the last flush never exceeds
\* shard_limit; the writer is flushed by the add that brings the count to
\* shard_limit and not before; the next shard counts from zero; every shard
\* written holds the adds of at most shard_limit consecutive records.
C27_ShardLimitRespected ==
  bpc # "idle" =>
    /\ builder.current_shard_record_count <= builder.shard_limit
    /\ bpc = "open" =>
         /\ builder.current_writer.live =>
              /\ builder.current_shard_record_count < builder.shard_limit
              /\ builder.current_writer.data =
                   WriterAddAll(builder.config,
                     SubSeq(blog, Len(blog) - builder.current_shard_record_count + 1,
                            Len(blog)))
         /\ builder.current_shard_record_count = builder.shard_limit =>
              /\ ~builder.current_writer.live
              /\ fs[builder.shard_paths[Len(builder.shard_paths)]].exists
         /\ builder.current_shard_record_count \in 1..(builder.shard_limit - 1) =>
              builder.current_writer.live
    /\ \A j \in 2..Len(builder.shard_paths) :
         fs[builder.shard_paths[j]].exists =>
           /\ Len(ShardSegment(j)) \in 1..builder.shard_limit
           /\ fs[builder.shard_paths[j]].entries = IndexOf(builder.config, ShardSegment(j))

\* shard_limit 2 and three records: one shard of two records is written and
\* the next writer holds the third
C27_Witness ==
  /\ bpc = "open"
  /\ builder.shard_limit = 2
  /\ Len(blog) = 3
  /\ builder.current_writer.live
  /\ builder.current_shard_record_count = 1
  /\ fs[builder.shard_paths[2]].exists
  /\ fs[builder.shard_paths[2]].entries = IndexOf(builder.config, SubSeq(blog, 1, 2))

\* the numbers of the shard paths that hold a written shard
WrittenShards == {n \in 0..(Len(ShardNames) - 1) : fs[ShardPath(n)].exists}

\* C28: the shards written are numbered from 0 in flush order: the first
\* flush writes the path numbered 00000, each later one the next higher
\* number, so the written numbers are always 0 .. (number of flushes - 1).
C28_ShardsNumberedFromZero ==
  WrittenShards = 0..(Cardinality(WrittenShards) - 1)

\* what the builder does instead: the written numbers run from 1, each
\* holding the next run of added records, and number 0 is never written
C28_ShardsNumberedFromOne ==
  /\ WrittenShards = 1..Cardinality(WrittenShards)
  /\ \A n \in WrittenShards :
       /\ n + 1 <= Len(builder.shard_paths)
       /\ builder.shard_paths[n + 1] = ShardPath(n)
       /\ fs[ShardPath(n)].entries = IndexOf(builder.config, ShardSegment(n + 1))

\* the first flush of a build has written the path numbered 00001
C28_FirstFlushAtOne ==
  /\ bpc = "open"
  /\ Len(blog) = builder.shard_limit
  /\ WrittenShards = {1}

\* the index one single writer of the builder's config writes when fed
\* every record the builder was fed, in the same order
SingleWriterIndex == BagFile(IndexOf(builder.config, blog))

\* a file answers every lookup or search as the single writer's index does
AnswersAsSingleWriter(file) ==
  \A q \in AssocQueries(builder.config) :
    QueryIndex(file, q) = QueryIndex(SingleWriterIndex, q)

\* C29: once a sharded builder whose body returned has closed, the output
\* index exists and answers every lookup (key builder) or search (text
\* builder) exactly as the index of one single writer fed the same records.
C29_ShardedEqualsSingle ==
  (bpc \in {"closed", "merge_raised"} /\ bbody = "returned") =>
    /\ fs[OutputPath].exists
    /\ AnswersAsSingleWriter(fs[OutputPath])

\* the shard paths after the one __enter__ appended
LaterShardPaths ==
  [i \in 1..(Len(builder.shard_paths) - 1) |-> builder.shard_paths[i + 1]]

\* the shards that were written lose and repeat nothing: merged by
\* themselves they answer as the single writer's index does
C29_WrittenShardsEquivalent ==
  (bpc \in {"exit_merge", "merge_raised"} /\ blog # <<>>) =>
    LET m == merge_indices(fs, LaterShardPaths, OutputPath)
    IN /\ m.err = "none"
       /\ AnswersAsSingleWriter(m.fs[OutputPath])

\* a build of three records in two shards has closed without an output
C29_ClosedWithoutOutput ==
  /\ bpc = "merge_raised"
  /\ bbody = "returned"
  /\ Len(blog) = 3
  /\ builder.shard_limit = 2
  /\ ~fs[OutputPath].exists

----------------------------------------------------------------------------
(* Normalization of texts and queries *)

\* the longest text that is normalized
MaxTextLen == 3

\* 'a', 'A', 'x', ' ' and tab
NormalizeChars == {97, 65, 120, 32, 9}

\* the character sets "a", "ax", "Aa", "A", "a " and "a<tab>"
NormalizeCharacterSets ==
  {<<97>>, <<97, 120>>, <<65, 97>>, <<65>>, <<97, 32>>, <<97, 9>>}

NormalizeInit ==
  /\ LibraryIdle
  /\ \E cs \in NormalizeCharacterSets, text \in SeqsUpTo(NormalizeChars, MaxTextLen) :
       pf = [op |-> "text", config |-> TriConfig(cs, 2, TRUE, FALSE, FALSE),
             text |-> text, normalized |-> <<>>, again |-> <<>>, slots |-> <<>>]

\* TrigramWriter.add_text / TrigramReader.search with config.normalize:
\* text = _normalize_text(text, config.compiled_normalize_regex)
NormalizeTextAct ==
  /\ pf.op = "text"
  /\ pf' = [pf EXCEPT !.op = "normalized",
                      !.normalized = normalize_text(pf.text, pf.config)]
  /\ UNCHANGED <<fs, hbvars, trivars, shvars, mgvars>>

\* the normalized text is handed to _normalize_text once more
NormalizeAgainAct ==
  /\ pf.op = "normalized"
  /\ pf' = [pf EXCEPT !.op = "renormalized",
                      !.again = normalize_text(pf.normalized, pf.config)]
  /\ UNCHANGED <<fs, hbvars, trivars, shvars, mgvars>>

\* the loop of add_text over the normalized text: get_ngram_index of
\* text[i : i + ngram_size] for every i of range(len(text) - ngram_size + 1)
NormalizedSlotsAct ==
  /\ pf.op = "normalized"
  /\ pf' = [pf EXCEPT !.op = "slots",
                      !.slots = [k \in 1..Max(0, Len(pf.normalized) - pf.config.ngram_size + 1) |->
                                   ngram_to_index(NgramAt(pf.normalized, pf.config, k - 1),
                                                  pf.config)]]
  /\ UNCHANGED <<fs, hbvars, trivars, shvars, mgvars>>

NormalizeNext ==
  \/ NormalizeTextAct
  \/ NormalizeAgainAct
  \/ NormalizedSlotsAct

SpecNormalize == NormalizeInit /\ [][NormalizeNext]_vars

\* the lowercased text, character by character
Lowered(text) == [i \in DOMAIN text |-> Lower(text[i])]

\* the positions of a lowercased text that stay after the runs are replaced:
\* every character of the set, and the first character of every run outside
KeptPositions(low, cs) ==
  {i \in DOMAIN low : low[i] \in cs \/ i = 1 \/ low[i - 1] \in cs}

\* the lowercased text with every maximal run of characters outside the
\* character set replaced by one space
RunsReplaced(text, cs) ==
  LET low == Lowered(text)
      kept == SortedInts(KeptPositions(low, cs))
  IN [k \in DOMAIN kept |-> IF low[kept[k]] \in cs THEN low[kept[k]] ELSE Space]

\* a text without its leading and trailing spaces (the character ' ' only)
SpacesRemoved(s) ==
  LET inner == {i \in DOMAIN s : s[i] # Space}
  IN IF inner = {} THEN <<>>
     ELSE SubSeq(s, CHOOSE i \in inner : \A j \in inner : i <= j,
                    CHOOSE i \in inner : \A j \in inner : j <= i)

\* the consequences drawn from the form of the result: only characters of
\* the effective character set, a valid slot for every n-gram, and the
\* second normalization changes nothing
NormalizedIsClosed ==
  /\ pf.op \in {"normalized", "renormalized", "slots"} =>
       Range(pf.normalized) \subseteq EffectiveSet(pf.config)
  /\ pf.op = "slots" =>
       /\ Len(pf.slots) = Max(0, Len(pf.normalized) - pf.config.ngram_size + 1)
       /\ \A k \in DOMAIN pf.slots : pf.slots[k] >= 0
  /\ pf.op = "renormalized" => pf.again = pf.normalized

\* C30: for every text and character set, normalization returns the
\* lowercased text with each maximal run of characters outside the set
\* replaced by one space and the leading and trailing spaces removed; the
\* result holds only characters of the effective character set, every
\* n-gram of it has a valid slot, and normalizing it again changes nothing.
C30_NormalizeText ==
  /\ pf.op \in {"normalized", "renormalized", "slots"} =>
       pf.normalized = SpacesRemoved(RunsReplaced(pf.text, Range(pf.config.character_set)))
  /\ NormalizedIsClosed

\* the statement holds for every character set without a whitespace
\* character other than the space
C30_HoldsWithoutWhitespaceInSet ==
  (\A c \in Range(pf.config.character_set) : IsWhitespace(c) => c = Space)
    => C30_NormalizeText

\* the consequences hold for every character set
C30_ConsequencesHold == NormalizedIsClosed

\* a text that starts with a tab of the character set lost it
C30_TabStripped ==
  /\ pf.op = "normalized"
  /\ pf.config.character_set = <<97, 9>>
  /\ pf.text = <<9, 97>>
  /\ pf.normalized = <<97>>

====
